---- MODULE Spec2Model ----
(***************************************************************************)
(* PULP-DSP kernels: strided matrix add / sub / copy (scalar, unrolled and *)
(* parallel variants), the parallel transposed matrix multiplication and   *)
(* the single-precision square root.                                       *)
(*                                                                         *)
(* A buffer is a function from element indices 0..size-1 to signed         *)
(* integers of the kernel's element width; a pointer is an element index.  *)
(* The processing elements enter a kernel together; after that one action *)
(* is one iteration of a kernel's outer (row) loop with the loop test that *)
(* follows it, the m_rem block, or the return from the barrier, executed   *)
(* by one processing element.                                              *)
(***************************************************************************)
EXTENDS Integers, Sequences, FiniteSets, TLC

VARIABLES
    args,      \* the kernel arguments bundle (kernel, build switch, M, N, O, nPE, strides)
    bufA,      \* contents of the buffer behind pSrcA (pSrc for the copy kernels)
    bufB,      \* contents of the buffer behind pSrcB
    bufY,      \* contents of the buffer behind pDst (pDstC for the multiplication)
    pe,        \* per processing element: position, loop counter m, operand pointers
    writers,   \* history: for every cell of bufY, the processing elements that stored to it
    rows,      \* history: per processing element, the values of m its row loop body ran with
    stray,     \* history: the accesses that fell outside the caller's buffers
    alt        \* a second run of the same call: on dense rows (SpecStride), of the plain
               \* build (SpecBuild); <<>> otherwise

vars == <<args, bufA, bufB, bufY, pe, writers, rows, stray, alt>>

(***************************************************************************)
(* Bounds of the model.                                                    *)
(***************************************************************************)
MaxM == 3
MaxIter == 1
MaxPad == 1
MaxPE == 2
MaxO == 2

(***************************************************************************)
(* Fixed-width signed integers.                                            *)
(***************************************************************************)
MaxOf(w) == CASE w = 8 -> 127 [] w = 16 -> 32767 [] w = 32 -> 2147483647

MinOf(w) == (-MaxOf(w)) - 1

\* conversion of an int to int8_t / int16_t on a store (two's complement)
Wrap(w, x) == ((x + MaxOf(w) + 1) % (2 * MaxOf(w) + 2)) - MaxOf(w) - 1

\* the unsigned 16-bit halves of a 32-bit two's complement value
Lo16(x) == x % 65536

Hi16(x) == (x \div 65536) % 65536

\* the int32_t with the given unsigned halves
Join32(hi, lo) == (IF hi >= 32768 THEN hi - 65536 ELSE hi) * 65536 + lo

\* 32-bit addition as the add instruction computes it (modulo 2^32)
Add32(a, b) ==
    LET lo == Lo16(a) + Lo16(b)
        hi == (Hi16(a) + Hi16(b) + (lo \div 65536)) % 65536
    IN  Join32(hi, lo % 65536)

(***************************************************************************)
(* The kernels.                                                            *)
(***************************************************************************)
ADD_I32S == "plp_mat_add_stride_i32s_xpulpv2"

ADD_I16P == "plp_mat_add_stride_i16p_xpulpv2"

ADD_I8P == "plp_mat_add_stride_i8p_xpulpv2"

SUB_I16S_RV == "plp_mat_sub_stride_i16s_rv32im"

SUB_I16S_XP == "plp_mat_sub_stride_i16s_xpulpv2"

COPY_I8S_RV == "plp_mat_copy_stride_i8s_rv32im"

COPY_I16S_RV == "plp_mat_copy_stride_i16s_rv32im"

COPY_I32S_RV == "plp_mat_copy_stride_i32s_rv32im"

COPY_I16S_XP == "plp_mat_copy_stride_i16s_xpulpv2"

COPY_I16P == "plp_mat_copy_stride_i16p_xpulpv2"

COPY_I8P == "plp_mat_copy_stride_i8p_xpulpv2"

MULT_I16VP == "plp_mat_mult_trans_i16vp_xpulpv2"

AddKernels == {ADD_I32S, ADD_I16P, ADD_I8P}

SubKernels == {SUB_I16S_RV, SUB_I16S_XP}

CopyKernels == {COPY_I8S_RV, COPY_I16S_RV, COPY_I32S_RV, COPY_I16S_XP, COPY_I16P, COPY_I8P}

\* the kernels that take their row partition from rt_core_id() and nPE
ParallelKernels == {ADD_I16P, ADD_I8P, COPY_I16P, COPY_I8P, MULT_I16VP}

Elementwise == AddKernels \cup SubKernels \cup CopyKernels

Kernels == Elementwise \cup {MULT_I16VP}

\* element width of the operands in bits
Width(k) ==
    CASE k \in {ADD_I8P, COPY_I8S_RV, COPY_I8P} -> 8
      [] k \in {ADD_I32S, COPY_I32S_RV} -> 32
      [] OTHER -> 16

\* elements handled by one step of the inner loop
StepOf(k, unroll) ==
    CASE k \in {ADD_I8P, COPY_I8P} -> 8
      [] k \in {ADD_I16P, COPY_I16P} -> 4
      [] k \in {SUB_I16S_XP, COPY_I16S_XP} -> IF unroll THEN 4 ELSE 2
      [] k = COPY_I8S_RV -> 4
      [] k \in {COPY_I16S_RV} -> 2
      [] k \in {ADD_I32S, SUB_I16S_RV, COPY_I32S_RV} -> IF unroll THEN 2 ELSE 1
      [] OTHER -> 1

\* the unrolled copy kernels that walk two rows at a time (pSrc1/pSrc2, pDst1/pDst2)
TwoRows(a) == a.LOOPUNROLL /\ a.kernel \in {COPY_I8S_RV, COPY_I16S_RV}

(***************************************************************************)
(* C operators and compiler builtins used by the kernels.                  *)
(***************************************************************************)
RECURSIVE BitAnd(_, _)
\* x & y on unsigned operands
BitAnd(x, y) ==
    IF x = 0 \/ y = 0 THEN 0
    ELSE (x % 2) * (y % 2) + 2 * BitAnd(x \div 2, y \div 2)

RECURSIVE Shr(_, _)
\* x >> k on an unsigned operand
Shr(x, k) == IF k = 0 THEN x ELSE Shr(x \div 2, k - 1)

RECURSIVE Repeat(_, _, _)
\* for (n = 0; n < k; n++) Body
Repeat(Body(_), k, s) == IF k = 0 THEN s ELSE Repeat(Body, k - 1, Body(s))

\* int32_t + int32_t
Add_i32(x, y) == Add32(x, y)

\* int16_t + int16_t, stored to an int16_t
Add_i16(x, y) == Wrap(16, x + y)

\* the 16-bit difference with the operands exchanged
Sub_i16_rev(x, y) == Wrap(16, y - x)

\* int16_t - int16_t, stored to an int16_t
Sub_i16(x, y) == Wrap(16, x - y)

\* an 8-bit addition that saturates at the ends of the range
Add_i8_sat(x, y) == IF x + y > 127 THEN 127 ELSE IF x + y < -128 THEN -128 ELSE x + y

\* int8_t + int8_t, stored to an int8_t
Add_i8(x, y) == Wrap(8, x + y)

\* __ADD2: lane-wise addition of two v2s vectors
ADD2(x, y) == <<Wrap(16, x[1] + y[1]), Wrap(16, x[2] + y[2])>>

\* __SUB2: lane-wise subtraction of two v2s vectors
SUB2(x, y) == <<Wrap(16, x[1] - y[1]), Wrap(16, x[2] - y[2])>>

\* __ADD4: lane-wise addition of two v4s vectors
ADD4(x, y) == [j \in 1..4 |-> Wrap(8, x[j] + y[j])]

\* *p: the element at index p; outside the caller's buffer the load yields 0 and is
\* recorded (see stray)
Load(buf, p) == IF p \in DOMAIN buf THEN buf[p] ELSE 0

\* *((v2s *)p), *((v4s *)p): the k elements at p as the lanes of a vector
LoadV(buf, p, k) == [j \in 1..k |-> Load(buf, p + j - 1)]

\* *((int32_t *)p) over elements of width w, little endian
LoadWord(buf, w, p) ==
    IF w = 16 THEN Lo16(Load(buf, p)) + 65536 * Load(buf, p + 1)
    ELSE (Load(buf, p) % 256) + 256 * (Load(buf, p + 1) % 256)
         + 65536 * (Load(buf, p + 2) % 256) + 16777216 * Load(buf, p + 3)

\* the elements of width w a stored int32_t leaves in memory, little endian
WordElems(w, x) ==
    IF w = 16 THEN <<Wrap(16, x % 65536), x \div 65536>>
    ELSE <<Wrap(8, x % 256), Wrap(8, (x \div 256) % 256),
           Wrap(8, (x \div 65536) % 256), x \div 16777216>>

(***************************************************************************)
(* The locals of one kernel invocation: the operand pointers, the          *)
(* buffers, and the cells loaded (rdA, rdB) and stored (wr) in this order. *)
(***************************************************************************)
\* a store of the elements vals at destination index p
Store(s, p, vals) ==
    [s EXCEPT !.Y = [i \in DOMAIN @ |->
                        IF i >= p /\ i < p + Len(vals) THEN vals[i - p + 1] ELSE @[i]],
              !.wr = @ \o [j \in 1..Len(vals) |-> p + j - 1]]

\* *(pDst + off) = F(*(pSrcA + off), *(pSrcB + off)) on scalars
ScalarOp(s, off, F(_, _)) ==
    [Store(s, s.pDst + off, <<F(Load(s.A, s.pSrcA + off), Load(s.B, s.pSrcB + off))>>)
        EXCEPT !.rdA = Append(@, s.pSrcA + off), !.rdB = Append(@, s.pSrcB + off)]

\* *((v *)(pDst + off)) = F(*((v *)(pSrcA + off)), *((v *)(pSrcB + off))) on vectors of k lanes
VecOp(s, off, k, F(_, _)) ==
    [Store(s, s.pDst + off, F(LoadV(s.A, s.pSrcA + off, k), LoadV(s.B, s.pSrcB + off, k)))
        EXCEPT !.rdA = @ \o [j \in 1..k |-> s.pSrcA + off + j - 1],
               !.rdB = @ \o [j \in 1..k |-> s.pSrcB + off + j - 1]]

\* *pd = *ps on elements of the source buffer
CopyElem(s, ps, pd) ==
    [Store(s, pd, <<Load(s.A, ps)>>) EXCEPT !.rdA = Append(@, ps)]

\* *((int32_t *)pd) = *((int32_t *)ps) over elements of width w
CopyWord(s, w, ps, pd) ==
    [Store(s, pd, WordElems(w, LoadWord(s.A, w, ps)))
        EXCEPT !.rdA = @ \o [j \in 1..(32 \div w) |-> ps + j - 1]]

\* pSrcA += da; pSrcB += db; pDst += dy
Adv(s, da, db, dy) ==
    [s EXCEPT !.pSrcA = @ + da, !.pSrcB = @ + db, !.pDst = @ + dy]

\* pSrc2 += ds; pDst2 += dd
Adv2(s, ds, dd) == [s EXCEPT !.pSrc2 = @ + ds, !.pDst2 = @ + dd]

(***************************************************************************)
(* plp_mat_add_stride_i32s_xpulpv2                                         *)
(***************************************************************************)
\* the body of the inner loop of the unrolled build
add_i32s_iter(s) == Adv(ScalarOp(ScalarOp(s, 0, Add_i32), 1, Add_i32), 2, 2, 2)

\* step_a, step_b, step_y
add_i32s_step(stride, N) == stride - N

\* one iteration of the row loop, PLP_MATH_LOOPUNROLL defined
add_i32s_unroll_row(a, s) ==
    LET n_iter == Shr(a.N, 1)
        n_rem == BitAnd(a.N, 1)
        it == Repeat(add_i32s_iter, n_iter, s)
        rem == IF n_rem # 0 THEN Adv(ScalarOp(it, 0, Add_i32), 1, 1, 1) ELSE it
    IN  Adv(rem, add_i32s_step(a.strideA, a.N), add_i32s_step(a.strideB, a.N),
            add_i32s_step(a.strideY, a.N))

\* the body of the inner loop of the plain build
add_i32s_plain_iter(s) == Adv(ScalarOp(s, 0, Add_i32), 1, 1, 1)

\* one iteration of the row loop, PLP_MATH_LOOPUNROLL not defined
add_i32s_plain_row(a, s) ==
    Adv(Repeat(add_i32s_plain_iter, a.N, s), add_i32s_step(a.strideA, a.N),
        add_i32s_step(a.strideB, a.N), add_i32s_step(a.strideY, a.N))

(***************************************************************************)
(* plp_mat_add_stride_i16p_xpulpv2                                         *)
(***************************************************************************)
\* an inner loop body that leaves out its second vector
add_i16p_iter_one(s) == Adv(VecOp(s, 0, 2, ADD2), 4, 4, 4)

\* the body of the inner loop: two v2s additions
add_i16p_iter(s) == Adv(VecOp(VecOp(s, 0, 2, ADD2), 2, 2, ADD2), 4, 4, 4)

\* a row step that forgets the other processing elements' rows
add_i16p_step_seq(stride, nPE, N) == stride - N

\* step_a, step_b, step_y
add_i16p_step(stride, nPE, N) == stride * nPE - N

\* one iteration of the row loop, in each of the four (n_rem, n_blk) cases
add_i16p_row(a, s) ==
    LET n_iter == Shr(a.N, 2)
        n_blk == BitAnd(a.N, 2)
        n_rem == BitAnd(a.N, 1)
        it == Repeat(add_i16p_iter, n_iter, s)
        blk(t) == Adv(VecOp(t, 0, 2, ADD2), 2, 2, 2)
        rem(t) == Adv(ScalarOp(t, 0, Add_i16), 1, 1, 1)
        next(t) == Adv(t, add_i16p_step(a.strideA, a.nPE, a.N),
                       add_i16p_step(a.strideB, a.nPE, a.N),
                       add_i16p_step(a.strideY, a.nPE, a.N))
    IN  IF n_rem # 0
        THEN IF n_blk # 0 THEN next(rem(blk(it))) ELSE next(rem(it))
        ELSE IF n_blk # 0 THEN next(blk(it)) ELSE next(it)

(***************************************************************************)
(* plp_mat_add_stride_i8p_xpulpv2                                          *)
(***************************************************************************)
\* the body of the inner loop: two v4s additions
add_i8p_iter(s) == Adv(VecOp(VecOp(s, 0, 4, ADD4), 4, 4, ADD4), 8, 8, 8)

\* a remainder loop that advances without storing
add_i8p_rem_skip(s) == Adv(s, 1, 1, 1)

\* the body of the n_rem loop
add_i8p_rem(s) == Adv(ScalarOp(s, 0, Add_i8), 1, 1, 1)

\* a row step that passes over the rows of the other processing elements without counting them
add_i8p_step_seq(stride, nPE, N) == stride - N

\* step_a, step_b, step_y
add_i8p_step(stride, nPE, N) == stride * nPE - N

\* one iteration of the row loop, in each of the four (n_rem, n_blk) cases
add_i8p_row(a, s) ==
    LET n_iter == Shr(a.N, 3)
        n_rem == BitAnd(a.N, 3)
        n_blk == BitAnd(a.N, 4)
        it == Repeat(add_i8p_iter, n_iter, s)
        blk(t) == Adv(VecOp(t, 0, 4, ADD4), 4, 4, 4)
        rem(t) == Repeat(add_i8p_rem, n_rem, t)
        next(t) == Adv(t, add_i8p_step(a.strideA, a.nPE, a.N),
                       add_i8p_step(a.strideB, a.nPE, a.N),
                       add_i8p_step(a.strideY, a.nPE, a.N))
    IN  IF n_rem # 0
        THEN IF n_blk # 0 THEN next(rem(blk(it))) ELSE next(rem(it))
        ELSE IF n_blk # 0 THEN next(blk(it)) ELSE next(it)

(***************************************************************************)
(* plp_mat_sub_stride_i16s_rv32im                                          *)
(***************************************************************************)
RECURSIVE sub_doc_loop(_, _, _, _, _)
\* the loop the documentation of the kernels gives, from its k-th pass (m = k / N, n = k % N)
\* on: pDst[m * strideY + n] = pSrcA[m * strideA + n] + pSrcB[m * strideB + n]
sub_doc_loop(a, A, B, Y, k) ==
    IF k >= a.M * a.N THEN Y
    ELSE LET m == k \div a.N
             n == k % a.N
         IN  sub_doc_loop(a, A, B,
                          [Y EXCEPT ![m * a.strideY + n] =
                              Wrap(16, A[m * a.strideA + n] + B[m * a.strideB + n])],
                          k + 1)

\* the body of the inner loop of the unrolled build
sub_i16s_rv_iter(s) == Adv(ScalarOp(ScalarOp(s, 0, Sub_i16), 1, Sub_i16), 2, 2, 2)

\* a row step that forgets the columns already walked
sub_i16s_rv_step_full(stride, N) == stride

\* step_a, step_b, step_y
sub_i16s_rv_step(stride, N) == stride - N

\* one iteration of the row loop, PLP_MATH_LOOPUNROLL defined
sub_i16s_rv_unroll_row(a, s) ==
    LET n_iter == Shr(a.N, 1)
        n_rem == BitAnd(a.N, 1)
        it == Repeat(sub_i16s_rv_iter, n_iter, s)
        rem == IF n_rem # 0 THEN Adv(ScalarOp(it, 0, Sub_i16), 1, 1, 1) ELSE it
    IN  Adv(rem, sub_i16s_rv_step(a.strideA, a.N), sub_i16s_rv_step(a.strideB, a.N),
            sub_i16s_rv_step(a.strideY, a.N))

\* an inner loop that adds, as the documented loop does
sub_i16s_rv_plain_iter_add(s) == Adv(ScalarOp(s, 0, Add_i16), 1, 1, 1)

\* the body of the inner loop of the plain build
sub_i16s_rv_plain_iter(s) == Adv(ScalarOp(s, 0, Sub_i16), 1, 1, 1)

\* one iteration of the row loop, PLP_MATH_LOOPUNROLL not defined
sub_i16s_rv_plain_row(a, s) ==
    Adv(Repeat(sub_i16s_rv_plain_iter, a.N, s), sub_i16s_rv_step(a.strideA, a.N),
        sub_i16s_rv_step(a.strideB, a.N), sub_i16s_rv_step(a.strideY, a.N))

(***************************************************************************)
(* plp_mat_sub_stride_i16s_xpulpv2                                         *)
(***************************************************************************)
\* an inner loop body that subtracts the first vector twice and leaves out the second
sub_i16s_xp_iter_twice(s) == Adv(VecOp(VecOp(s, 0, 2, SUB2), 0, 2, SUB2), 4, 4, 4)

\* the body of the inner loop of the unrolled build: two v2s subtractions
sub_i16s_xp_iter(s) == Adv(VecOp(VecOp(s, 0, 2, SUB2), 2, 2, SUB2), 4, 4, 4)

\* step_a, step_b, step_y
sub_i16s_xp_step(stride, N) == stride - N

\* one iteration of the row loop, PLP_MATH_LOOPUNROLL defined, in each (n_rem, n_blk) case
sub_i16s_xp_unroll_row(a, s) ==
    LET n_iter == Shr(a.N, 2)
        n_rem == BitAnd(a.N, 1)
        n_blk == BitAnd(a.N, 2)
        it == Repeat(sub_i16s_xp_iter, n_iter, s)
        blk(t) == Adv(VecOp(t, 0, 2, SUB2), 2, 2, 2)
        rem(t) == Adv(ScalarOp(t, 0, Sub_i16), 1, 1, 1)
        next(t) == Adv(t, sub_i16s_xp_step(a.strideA, a.N), sub_i16s_xp_step(a.strideB, a.N),
                       sub_i16s_xp_step(a.strideY, a.N))
    IN  IF n_rem # 0
        THEN IF n_blk # 0 THEN next(rem(blk(it))) ELSE next(rem(it))
        ELSE IF n_blk # 0 THEN next(blk(it)) ELSE next(it)

\* the body of the inner loop of the plain build: one v2s subtraction
sub_i16s_xp_plain_iter(s) == Adv(VecOp(s, 0, 2, SUB2), 2, 2, 2)

\* one iteration of the row loop, PLP_MATH_LOOPUNROLL not defined
sub_i16s_xp_plain_row(a, s) ==
    LET n_iter == Shr(a.N, 1)
        n_rem == BitAnd(a.N, 1)
        it == Repeat(sub_i16s_xp_plain_iter, n_iter, s)
        rem == IF n_rem # 0 THEN Adv(ScalarOp(it, 0, Sub_i16), 1, 1, 1) ELSE it
    IN  Adv(rem, sub_i16s_xp_step(a.strideA, a.N), sub_i16s_xp_step(a.strideB, a.N),
            sub_i16s_xp_step(a.strideY, a.N))

(***************************************************************************)
(* plp_mat_copy_stride_i8s_rv32im.  The copy kernels keep pSrc in pSrcA    *)
(* and its stride in strideA; the unrolled build keeps pSrc1, pDst1 in     *)
(* pSrcA, pDst and walks pSrc2, pDst2 beside them.                         *)
(***************************************************************************)
\* the body of the inner loop over two rows
copy_i8s_rv_iter2(s) ==
    Adv2(Adv(CopyWord(CopyWord(s, 8, s.pSrcA, s.pDst), 8, s.pSrc2, s.pDst2), 4, 0, 4), 4, 4)

\* the body of the n_rem loop over two rows
copy_i8s_rv_rem2(s) ==
    Adv2(Adv(CopyElem(CopyElem(s, s.pSrcA, s.pDst), s.pSrc2, s.pDst2), 1, 0, 1), 1, 1)

\* the body of the inner loop over one row
copy_i8s_rv_iter(s) == Adv(CopyWord(s, 8, s.pSrcA, s.pDst), 4, 0, 4)

\* the body of the n_rem loop over one row
copy_i8s_rv_rem(s) == Adv(CopyElem(s, s.pSrcA, s.pDst), 1, 0, 1)

\* one iteration of the loop over m_iter row pairs, PLP_MATH_LOOPUNROLL defined
copy_i8s_rv_unroll_row(a, s) ==
    LET offset_src == 2 * a.strideA - a.N
        offset_dst == 2 * a.strideY - a.N
        n_iter == Shr(a.N, 2)
        n_rem == BitAnd(a.N, 3)
        it == Repeat(copy_i8s_rv_iter2, n_iter, s)
        rem == IF n_rem # 0 THEN Repeat(copy_i8s_rv_rem2, n_rem, it) ELSE it
    IN  Adv2(Adv(rem, offset_src, 0, offset_dst), offset_src, offset_dst)

\* the statements after the loop: if (m_rem) copy the last row through pSrc1, pDst1
copy_i8s_rv_unroll_tail(a, s) ==
    LET m_rem == BitAnd(a.M, 1)
        n_iter == Shr(a.N, 2)
        n_rem == BitAnd(a.N, 3)
        it == Repeat(copy_i8s_rv_iter, n_iter, s)
    IN  IF m_rem = 0 THEN s
        ELSE IF n_rem # 0 THEN Repeat(copy_i8s_rv_rem, n_rem, it) ELSE it

\* one iteration of the row loop, PLP_MATH_LOOPUNROLL not defined
copy_i8s_rv_plain_row(a, s) ==
    LET offset_src == a.strideA - a.N
        offset_dst == a.strideY - a.N
        n_iter == Shr(a.N, 2)
        n_rem == BitAnd(a.N, 3)
        it == Repeat(copy_i8s_rv_iter, n_iter, s)
        rem == IF n_rem # 0 THEN Repeat(copy_i8s_rv_rem, n_rem, it) ELSE it
    IN  Adv(rem, offset_src, 0, offset_dst)

(***************************************************************************)
(* plp_mat_copy_stride_i16s_rv32im                                         *)
(***************************************************************************)
\* the body of the inner loop over two rows
copy_i16s_rv_iter2(s) ==
    Adv2(Adv(CopyWord(CopyWord(s, 16, s.pSrcA, s.pDst), 16, s.pSrc2, s.pDst2), 2, 0, 2), 2, 2)

\* *pDst1 = *pSrc1; *pDst2 = *pSrc2
copy_i16s_rv_rem2(s) == CopyElem(CopyElem(s, s.pSrcA, s.pDst), s.pSrc2, s.pDst2)

\* a row-to-row offset that takes the rows to be dense
copy_i16s_rv_offset_dense(rowsApart, stride, N, n_rem) ==
    IF n_rem # 0 THEN rowsApart * N - N + 1 ELSE rowsApart * N - N

\* the row-to-row offset: src_offset, dst_offset computed from rows strides apart
copy_i16s_rv_offset(rowsApart, stride, N, n_rem) ==
    IF n_rem # 0 THEN rowsApart * stride - N + 1 ELSE rowsApart * stride - N

\* one iteration of the loop over m_iter row pairs, PLP_MATH_LOOPUNROLL defined
copy_i16s_rv_unroll_row(a, s) ==
    LET n_iter == Shr(a.N, 1)
        n_rem == BitAnd(a.N, 1)
        src_offset == copy_i16s_rv_offset(2, a.strideA, a.N, n_rem)
        dst_offset == copy_i16s_rv_offset(2, a.strideY, a.N, n_rem)
        it == Repeat(copy_i16s_rv_iter2, n_iter, s)
        rem == IF n_rem # 0 THEN copy_i16s_rv_rem2(it) ELSE it
    IN  Adv2(Adv(rem, src_offset, 0, dst_offset), src_offset, dst_offset)

\* the statements after the loop: if (m_rem) run the two-row body once more
copy_i16s_rv_unroll_tail(a, s) ==
    LET m_rem == BitAnd(a.M, 1)
        n_iter == Shr(a.N, 1)
        n_rem == BitAnd(a.N, 1)
        it == Repeat(copy_i16s_rv_iter2, n_iter, s)
    IN  IF m_rem = 0 THEN s
        ELSE IF n_rem # 0 THEN copy_i16s_rv_rem2(it) ELSE it

\* the body of the inner loop of the plain build
copy_i16s_rv_plain_iter(s) == Adv(CopyWord(s, 16, s.pSrcA, s.pDst), 2, 0, 2)

\* one iteration of the row loop, PLP_MATH_LOOPUNROLL not defined
copy_i16s_rv_plain_row(a, s) ==
    LET n_iter == Shr(a.N, 1)
        n_rem == BitAnd(a.N, 1)
        src_offset == copy_i16s_rv_offset(1, a.strideA, a.N, n_rem)
        dst_offset == copy_i16s_rv_offset(1, a.strideY, a.N, n_rem)
        it == Repeat(copy_i16s_rv_plain_iter, n_iter, s)
        rem == IF n_rem # 0 THEN CopyElem(it, it.pSrcA, it.pDst) ELSE it
    IN  Adv(rem, src_offset, 0, dst_offset)

(***************************************************************************)
(* plp_mat_copy_stride_i32s_rv32im                                         *)
(***************************************************************************)
\* *pDst++ = *pSrc++
copy_i32s_elem(s) == Adv(CopyElem(s, s.pSrcA, s.pDst), 1, 0, 1)

\* the body of the inner loop of the unrolled build
copy_i32s_iter(s) == copy_i32s_elem(copy_i32s_elem(s))

\* one iteration of the row loop, PLP_MATH_LOOPUNROLL defined
copy_i32s_unroll_row(a, s) ==
    LET n_iter == Shr(a.N, 1)
        n_rem == BitAnd(a.N, 1)
        it == Repeat(copy_i32s_iter, n_iter, s)
        rem == IF n_rem # 0 THEN copy_i32s_elem(it) ELSE it
    IN  Adv(rem, a.strideA - a.N, 0, a.strideY - a.N)

RECURSIVE copy_i32s_plain_cols(_, _, _)
\* for (n; n < N; n++) pDst[m * strideDst + n] = pSrc[m * strideSrc + n]
copy_i32s_plain_cols(a, s, n) ==
    IF n >= a.N THEN s
    ELSE copy_i32s_plain_cols(
             a, CopyElem(s, s.m * a.strideA + n, s.m * a.strideY + n), n + 1)

\* one iteration of the row loop, PLP_MATH_LOOPUNROLL not defined
copy_i32s_plain_row(a, s) == copy_i32s_plain_cols(a, s, 0)

(***************************************************************************)
(* plp_mat_copy_stride_i16s_xpulpv2                                        *)
(***************************************************************************)
\* *((int32_t *)pDst) = *((int32_t *)pSrc); pDst += 2; pSrc += 2
copy_i16s_xp_word(s) == Adv(CopyWord(s, 16, s.pSrcA, s.pDst), 2, 0, 2)

\* the body of the inner loop of the unrolled build: two words
copy_i16s_xp_iter(s) == copy_i16s_xp_word(copy_i16s_xp_word(s))

\* an offset that forgets the element of the remainder
copy_i16s_xp_offset_even(stride, N, n_rem) == stride - N

\* src_offset, dst_offset
copy_i16s_xp_offset(stride, N, n_rem) ==
    IF n_rem # 0 THEN stride - N + 1 ELSE stride - N

\* one iteration of the row loop, PLP_MATH_LOOPUNROLL defined, in each (n_rem, n_blk) case
copy_i16s_xp_unroll_row(a, s) ==
    LET n_iter == Shr(a.N, 2)
        n_blk == BitAnd(a.N, 2)
        n_rem == BitAnd(a.N, 1)
        it == Repeat(copy_i16s_xp_iter, n_iter, s)
        blk(t) == copy_i16s_xp_word(t)
        rem(t) == CopyElem(t, t.pSrcA, t.pDst)
        next(t) == Adv(t, copy_i16s_xp_offset(a.strideA, a.N, n_rem), 0,
                       copy_i16s_xp_offset(a.strideY, a.N, n_rem))
    IN  IF n_rem # 0
        THEN IF n_blk # 0 THEN next(rem(blk(it))) ELSE next(rem(it))
        ELSE IF n_blk # 0 THEN next(blk(it)) ELSE next(it)

\* one iteration of the row loop, PLP_MATH_LOOPUNROLL not defined
copy_i16s_xp_plain_row(a, s) ==
    LET n_iter == Shr(a.N, 1)
        n_rem == BitAnd(a.N, 1)
        it == Repeat(copy_i16s_xp_word, n_iter, s)
        rem == IF n_rem # 0 THEN CopyElem(it, it.pSrcA, it.pDst) ELSE it
    IN  Adv(rem, copy_i16s_xp_offset(a.strideA, a.N, n_rem), 0,
            copy_i16s_xp_offset(a.strideY, a.N, n_rem))

(***************************************************************************)
(* plp_mat_copy_stride_i16p_xpulpv2                                        *)
(***************************************************************************)
\* *((int32_t *)pDst) = *((int32_t *)pSrc); pDst += 2; pSrc += 2
copy_i16p_word(s) == Adv(CopyWord(s, 16, s.pSrcA, s.pDst), 2, 0, 2)

\* the body of the inner loop: two words
copy_i16p_iter(s) == copy_i16p_word(copy_i16p_word(s))

\* an offset that forgets the element of the remainder
copy_i16p_offset_even(stride, nPE, N, n_rem) == nPE * stride - N

\* src_offset, dst_offset of the branch taken
copy_i16p_offset(stride, nPE, N, n_rem) ==
    IF n_rem # 0 THEN nPE * stride - N + 1 ELSE nPE * stride - N

\* one iteration of the row loop, in each of the four (n_rem, n_blk) cases
copy_i16p_row(a, s) ==
    LET n_iter == Shr(a.N, 2)
        n_blk == BitAnd(a.N, 2)
        n_rem == BitAnd(a.N, 1)
        it == Repeat(copy_i16p_iter, n_iter, s)
        blk(t) == copy_i16p_word(t)
        rem(t) == CopyElem(t, t.pSrcA, t.pDst)
        next(t) == Adv(t, copy_i16p_offset(a.strideA, a.nPE, a.N, n_rem), 0,
                       copy_i16p_offset(a.strideY, a.nPE, a.N, n_rem))
    IN  IF n_rem # 0
        THEN IF n_blk # 0 THEN next(rem(blk(it))) ELSE next(rem(it))
        ELSE IF n_blk # 0 THEN next(blk(it)) ELSE next(it)

(***************************************************************************)
(* plp_mat_copy_stride_i8p_xpulpv2                                         *)
(***************************************************************************)
\* *((int32_t *)pDst) = *((int32_t *)pSrc); pDst += 4; pSrc += 4
copy_i8p_word(s) == Adv(CopyWord(s, 8, s.pSrcA, s.pDst), 4, 0, 4)

\* the body of the inner loop: two words
copy_i8p_iter(s) == copy_i8p_word(copy_i8p_word(s))

\* the body of the n_rem loop
copy_i8p_rem(s) == Adv(CopyElem(s, s.pSrcA, s.pDst), 1, 0, 1)

\* src_offset, dst_offset
copy_i8p_offset(stride, nPE, N) == (stride * nPE) - N

\* whether the case selected by (n_iter, n_rem, n_last_full) contains a row loop
copy_i8p_has_loop(a) ==
    ~(Shr(a.N, 3) = 0 /\ BitAnd(a.N, 3) = 0 /\ BitAnd(a.N, 4) = 0)

\* one iteration of the row loop, in each of the seven cases that have one
copy_i8p_row(a, s) ==
    LET n_iter == Shr(a.N, 3)
        n_rem == BitAnd(a.N, 3)
        n_last_full == BitAnd(a.N, 4)
        it(t) == Repeat(copy_i8p_iter, n_iter, t)
        full(t) == copy_i8p_word(t)
        rem(t) == Repeat(copy_i8p_rem, n_rem, t)
        next(t) == Adv(t, copy_i8p_offset(a.strideA, a.nPE, a.N), 0,
                       copy_i8p_offset(a.strideY, a.nPE, a.N))
    IN  IF n_iter = 0
        THEN IF n_rem = 0
             THEN IF n_last_full = 0 THEN s ELSE next(full(s))
             ELSE IF n_last_full = 0 THEN next(rem(s)) ELSE next(rem(full(s)))
        ELSE IF n_rem = 0
             THEN IF n_last_full = 0 THEN next(it(s)) ELSE next(full(it(s)))
             ELSE IF n_last_full = 0 THEN next(rem(it(s))) ELSE next(rem(full(it(s))))

(***************************************************************************)
(* plp_mat_mult_trans_i16vp_xpulpv2                                        *)
(***************************************************************************)
\* a sum that keeps only its last product
mult_sum_last(a, s, o, n, sum) ==
    IF a.N = 0 THEN 0
    ELSE Load(s.A, s.m * a.N + a.N - 1) * Load(s.B, o * a.N + a.N - 1)

RECURSIVE mult_sum(_, _, _, _, _)
\* for (n; n < N; n++) sum = sum + pSrcA[m*N + n] * pSrcB[o*N + n]
mult_sum(a, s, o, n, sum) ==
    IF n >= a.N THEN sum
    ELSE mult_sum(a, s, o, n + 1, Add32(sum, Load(s.A, s.m * a.N + n) * Load(s.B, o * a.N + n)))

RECURSIVE mult_cols(_, _, _)
\* for (o; o < O; o++) pDstC[m*O + o] = sum
mult_cols(a, s, o) ==
    IF o >= a.O THEN s
    ELSE mult_cols(
             a,
             [Store(s, s.m * a.O + o, <<mult_sum(a, s, o, 0, 0)>>)
                 EXCEPT !.rdA = @ \o [n \in 1..a.N |-> s.m * a.N + n - 1],
                        !.rdB = @ \o [n \in 1..a.N |-> o * a.N + n - 1]],
             o + 1)

\* one iteration of the row loop
mult_row(a, s) == mult_cols(a, s, 0)

(***************************************************************************)
(* Control of one kernel invocation.                                       *)
(***************************************************************************)
\* every processing element starting at row 0
FirstRow_zero(a, core_id) == 0

\* initialisation of the row loop counter: m = core_id in the parallel kernels, m = 0 otherwise
FirstRow(a, core_id) == IF a.kernel \in ParallelKernels THEN core_id ELSE 0

\* a step that passes over one row more than the team has members
NextRow_skip(a, m) == IF a.kernel \in ParallelKernels THEN m + a.nPE + 1 ELSE m + 1

\* every processing element stepping by one row
NextRow_one(a, m) == m + 1

\* increment of the row loop counter: m += nPE in the parallel kernels, m++ otherwise
NextRow(a, m) == IF a.kernel \in ParallelKernels THEN m + a.nPE ELSE m + 1

\* no processing element offsetting its pointers
PreOffset_none(a, stride, core_id) == 0

\* pSrcA += strideA * core_id (likewise pSrcB, pDst) in the parallel elementwise kernels
PreOffset(a, stride, core_id) ==
    IF a.kernel \in ParallelKernels \ {MULT_I16VP} THEN stride * core_id ELSE 0

\* a row loop running one row too far
LoopCond_incl(a, m) == m <= a.M

\* the condition of the row loop
LoopCond(a, m) ==
    CASE TwoRows(a) -> m < Shr(a.M, 1)
      [] a.kernel = COPY_I8P -> copy_i8p_has_loop(a) /\ m < a.M
      [] OTHER -> m < a.M

\* a multiplication returning right after its row loop
AfterLoop_nobarrier(a) == IF TwoRows(a) THEN "tail" ELSE "done"

\* what follows the row loop: the m_rem block, rt_team_barrier(), or the return
AfterLoop(a) ==
    CASE TwoRows(a) -> "tail"
      [] a.kernel = MULT_I16VP -> "barrier"
      [] OTHER -> "done"

\* rt_team_barrier() returns once every one of the nPE processing elements has called it
BarrierOpen(r) == \A q \in DOMAIN r.pe : r.pe[q].pc \in {"barrier", "done"}

\* a loop test after which every kernel goes on to a barrier
LoopTest_barrier(a, m) == IF LoopCond(a, m) THEN "loop" ELSE "barrier"

\* the test of the row loop on counter m: into the body, or on to what follows the loop
LoopTest(a, m) == IF LoopCond(a, m) THEN "loop" ELSE AfterLoop(a)

\* an entry from which a processing element that owns no row returns at once
Entry_idle(a, core_id) ==
    [pc |-> IF core_id >= a.M THEN "done" ELSE LoopTest(a, FirstRow(a, core_id)),
     m |-> FirstRow(a, core_id),
     pSrcA |-> PreOffset(a, a.strideA, core_id),
     pSrcB |-> PreOffset(a, a.strideB, core_id),
     pDst |-> PreOffset(a, a.strideY, core_id),
     pSrc2 |-> IF TwoRows(a) THEN a.strideA ELSE 0,
     pDst2 |-> IF TwoRows(a) THEN a.strideY ELSE 0]

\* the locals of processing element core_id after the declarations and the first loop test
Entry(a, core_id) ==
    [pc |-> LoopTest(a, FirstRow(a, core_id)),
     m |-> FirstRow(a, core_id),
     pSrcA |-> PreOffset(a, a.strideA, core_id),
     pSrcB |-> PreOffset(a, a.strideB, core_id),
     pDst |-> PreOffset(a, a.strideY, core_id),
     pSrc2 |-> IF TwoRows(a) THEN a.strideA ELSE 0,
     pDst2 |-> IF TwoRows(a) THEN a.strideY ELSE 0]

\* one iteration of the row loop of the kernel and build named by the arguments
KernelRow(a, s) ==
    CASE a.kernel = ADD_I32S ->
             IF a.LOOPUNROLL THEN add_i32s_unroll_row(a, s) ELSE add_i32s_plain_row(a, s)
      [] a.kernel = ADD_I16P -> add_i16p_row(a, s)
      [] a.kernel = ADD_I8P -> add_i8p_row(a, s)
      [] a.kernel = SUB_I16S_RV ->
             IF a.LOOPUNROLL THEN sub_i16s_rv_unroll_row(a, s) ELSE sub_i16s_rv_plain_row(a, s)
      [] a.kernel = SUB_I16S_XP ->
             IF a.LOOPUNROLL THEN sub_i16s_xp_unroll_row(a, s) ELSE sub_i16s_xp_plain_row(a, s)
      [] a.kernel = COPY_I8S_RV ->
             IF a.LOOPUNROLL THEN copy_i8s_rv_unroll_row(a, s) ELSE copy_i8s_rv_plain_row(a, s)
      [] a.kernel = COPY_I16S_RV ->
             IF a.LOOPUNROLL THEN copy_i16s_rv_unroll_row(a, s)
             ELSE copy_i16s_rv_plain_row(a, s)
      [] a.kernel = COPY_I32S_RV ->
             IF a.LOOPUNROLL THEN copy_i32s_unroll_row(a, s) ELSE copy_i32s_plain_row(a, s)
      [] a.kernel = COPY_I16S_XP ->
             IF a.LOOPUNROLL THEN copy_i16s_xp_unroll_row(a, s)
             ELSE copy_i16s_xp_plain_row(a, s)
      [] a.kernel = COPY_I16P -> copy_i16p_row(a, s)
      [] a.kernel = COPY_I8P -> copy_i8p_row(a, s)
      [] a.kernel = MULT_I16VP -> mult_row(a, s)

\* the m_rem block after the row-pair loop of the unrolled rv32im copy kernels
KernelTail(a, s) ==
    IF a.kernel = COPY_I8S_RV THEN copy_i8s_rv_unroll_tail(a, s)
    ELSE copy_i16s_rv_unroll_tail(a, s)

(***************************************************************************)
(* A run: one call of a kernel by all its processing elements, as a record *)
(* of the arguments, the three buffers, the processing elements and the    *)
(* history of stores and rows.                                             *)
(***************************************************************************)
\* the locals of processing element p together with the buffers they point into
Locals(r, p) ==
    [m |-> r.pe[p].m, pSrcA |-> r.pe[p].pSrcA, pSrcB |-> r.pe[p].pSrcB,
     pDst |-> r.pe[p].pDst, pSrc2 |-> r.pe[p].pSrc2, pDst2 |-> r.pe[p].pDst2,
     A |-> r.bufA, B |-> r.bufB, Y |-> r.bufY, wr |-> <<>>, rdA |-> <<>>, rdB |-> <<>>]

\* the run after processing element p has executed s, continuing at pc with loop counter m
Commit(r, p, s, pc, m) ==
    LET stored == {s.wr[j] : j \in 1..Len(s.wr)}
        loadedA == {s.rdA[j] : j \in 1..Len(s.rdA)}
        loadedB == {s.rdB[j] : j \in 1..Len(s.rdB)}
    IN
    [r EXCEPT !.bufY = s.Y,
              !.pe[p] = [pc |-> pc, m |-> m, pSrcA |-> s.pSrcA, pSrcB |-> s.pSrcB,
                         pDst |-> s.pDst, pSrc2 |-> s.pSrc2, pDst2 |-> s.pDst2],
              !.writers = [i \in DOMAIN @ |-> IF i \in stored THEN @[i] \cup {p} ELSE @[i]],
              !.stray = @ \cup {<<"pSrcA", i>> : i \in loadedA \ DOMAIN r.bufA}
                          \cup {<<"pSrcB", i>> : i \in loadedB \ DOMAIN r.bufB}
                          \cup {<<"pDst", i>> : i \in stored \ DOMAIN r.bufY}]

\* the nPE processing elements enter the kernel: each one initialises its locals and makes
\* the first test of its row loop
EnterEn(r) == \A p \in DOMAIN r.pe : r.pe[p].pc = "start"

EnterR(r) == [r EXCEPT !.pe = [p \in DOMAIN @ |-> Entry(r.args, p)]]

\* processing element p executes one iteration of its row loop: the body, the increment of
\* m and the loop test
RowEn(r, p) == r.pe[p].pc = "loop"

RowR(r, p) ==
    LET m == NextRow(r.args, r.pe[p].m)
    IN  [Commit(r, p, KernelRow(r.args, Locals(r, p)), LoopTest(r.args, m), m)
            EXCEPT !.rows[p] = Append(@, r.pe[p].m)]

\* processing element p executes the m_rem block
\* an m_rem block that is never executed
TailEn_never(r, p) == FALSE

TailEn(r, p) == r.pe[p].pc = "tail"

TailR(r, p) == Commit(r, p, KernelTail(r.args, Locals(r, p)), "done", r.pe[p].m)

\* processing element p returns from rt_team_barrier()
BarrierEn(r, p) == r.pe[p].pc = "barrier" /\ BarrierOpen(r)

BarrierR(r, p) == [r EXCEPT !.pe[p].pc = "done"]

(***************************************************************************)
(* Calls: the arguments a caller may pass and the buffers it provides.     *)
(***************************************************************************)
\* the logical element idx (row-major) of the first and second operand matrix
LA(w, idx) ==
    CASE idx % 3 = 0 -> MaxOf(w) - (idx % 100)
      [] idx % 3 = 1 -> MinOf(w) + (idx % 100)
      [] OTHER -> (idx % 100) + 1

LB(w, idx) == 1 + ((2 * idx) % 120)

\* the operands of the multiplication (rows of full-scale negative values overflow the sum)
MA(idx) == IF idx % 3 = 2 THEN idx + 1 ELSE MinOf(16)

MB(idx) == IF idx % 3 = 2 THEN -(idx + 1) ELSE MinOf(16)

\* what the caller's buffers hold outside the M x N matrix (padding, further rows)
PadA(i) == -(1 + (i % 100))

PadB(i) == 100 - (i % 100)

\* a buffer holding the M x N matrix L at the given stride, with one further row after it
Layout(M, N, stride, L(_), P(_)) ==
    [i \in 0..((M + 1) * stride - 1) |->
        IF (i \div stride) < M /\ (i % stride) < N
        THEN L((i \div stride) * N + (i % stride))
        ELSE P(i)]

\* the widest row of a call
NMax(k, unroll) ==
    IF k = MULT_I16VP THEN MaxIter + 1
    ELSE (IF StepOf(k, unroll) < 2 THEN 2 ELSE StepOf(k, unroll)) * (MaxIter + 1) - 1

\* the arguments of a call of an elementwise kernel: strides are the row width plus padding
ElemArg(k, u, M, N, n, pa, pb, py) ==
    [kernel |-> k, LOOPUNROLL |-> u, M |-> M, N |-> N, O |-> 0, nPE |-> n,
     strideA |-> N + pa, strideB |-> N + pb, strideY |-> N + py]

\* the arguments of a call of the multiplication: A is M x N, B is O x N, C is M x O, all dense
MultArg(M, N, O, n) ==
    [kernel |-> MULT_I16VP, LOOPUNROLL |-> TRUE, M |-> M, N |-> N, O |-> O, nPE |-> n,
     strideA |-> N, strideB |-> N, strideY |-> O]

\* the builds of kernel k, its numbers of processing elements and the paddings of its strides
Builds(k) == IF k \in ParallelKernels THEN {TRUE} ELSE BOOLEAN

Teams(k) == IF k \in ParallelKernels THEN 1..MaxPE ELSE {1}

PadsB(k) == IF k \in CopyKernels THEN {0} ELSE 0..MaxPad

\* the run at the moment the caller dispatches the kernel to its nPE processing elements
Call(a) ==
    LET w == Width(a.kernel)
        LAw(i) == LA(w, i)
        LBw(i) == LB(w, i)
        y == IF a.kernel = MULT_I16VP
             THEN [i \in 0..(a.M * a.O - 1) |-> -1]
             ELSE [i \in 0..((a.M + 1) * a.strideY - 1) |-> -1]
    IN  [args |-> a,
         bufA |-> IF a.kernel = MULT_I16VP THEN [i \in 0..(a.M * a.N - 1) |-> MA(i)]
                  ELSE Layout(a.M, a.N, a.strideA, LAw, PadA),
         bufB |-> IF a.kernel = MULT_I16VP THEN [i \in 0..(a.O * a.N - 1) |-> MB(i)]
                  ELSE Layout(a.M, a.N, a.strideB, LBw, PadB),
         bufY |-> y,
         pe |-> [p \in 0..(a.nPE - 1) |->
                    [pc |-> "start", m |-> 0, pSrcA |-> 0, pSrcB |-> 0, pDst |-> 0,
                     pSrc2 |-> 0, pDst2 |-> 0]],
         writers |-> [i \in DOMAIN y |-> {}],
         rows |-> [p \in 0..(a.nPE - 1) |-> <<>>],
         stray |-> {}]

(***************************************************************************)
(* The state machine.                                                      *)
(***************************************************************************)
\* the run held by the variables
Run ==
    [args |-> args, bufA |-> bufA, bufB |-> bufB, bufY |-> bufY, pe |-> pe,
     writers |-> writers, rows |-> rows, stray |-> stray]

\* the variables take the run r (the arguments and the source buffers are never assigned)
Becomes(r) ==
    /\ bufY' = r.bufY
    /\ pe' = r.pe
    /\ writers' = r.writers
    /\ rows' = r.rows
    /\ stray' = r.stray
    /\ UNCHANGED <<args, bufA, bufB>>

PE == DOMAIN pe

\* the variables hold the run c
Starts(c) ==
    /\ args = c.args
    /\ bufA = c.bufA
    /\ bufB = c.bufB
    /\ bufY = c.bufY
    /\ pe = c.pe
    /\ writers = c.writers
    /\ rows = c.rows
    /\ stray = c.stray

Init ==
    /\ alt = <<>>
    /\ \/ \E k \in Elementwise : \E u \in Builds(k) : \E N \in 0..NMax(k, u) :
           \E M \in 0..MaxM, n \in Teams(k), pa \in 0..MaxPad, pb \in PadsB(k), py \in 0..MaxPad :
              Starts(Call(ElemArg(k, u, M, N, n, pa, pb, py)))
       \/ \E M \in 0..MaxM, N \in 0..NMax(MULT_I16VP, TRUE), O \in 0..MaxO, n \in 1..MaxPE :
              Starts(Call(MultArg(M, N, O, n)))

Enter == EnterEn(Run) /\ Becomes(EnterR(Run))

Row(p) == RowEn(Run, p) /\ Becomes(RowR(Run, p))

Rem(p) == TailEn(Run, p) /\ Becomes(TailR(Run, p))

Barrier(p) == BarrierEn(Run, p) /\ Becomes(BarrierR(Run, p))

Next ==
    \/ Enter /\ UNCHANGED alt
    \/ \E p \in PE : Row(p) /\ UNCHANGED alt
    \/ \E p \in PE : Rem(p) /\ UNCHANGED alt
    \/ \E p \in PE : Barrier(p) /\ UNCHANGED alt

Spec == Init /\ [][Next]_vars

\* The cores keep executing: a run does not stop while the kernel is to be entered or a
\* processing element has a step to take.  Both conditions are weak fairness; the second,
\* WF_vars of the Row, Rem and Barrier steps, is written out as "infinitely often none is
\* enabled or infinitely often one is taken", with the guards of the steps for ENABLED and
\* the step of processing element p recognised by its guard and the change of pe[p].
SpecFair ==
    /\ Spec
    /\ WF_vars(Enter /\ UNCHANGED alt)
    /\ \/ []<>~(\E p \in PE : RowEn(Run, p) \/ TailEn(Run, p) \/ BarrierEn(Run, p))
       \/ []<><<\E p \in PE : /\ RowEn(Run, p) \/ TailEn(Run, p) \/ BarrierEn(Run, p)
                              /\ pe'[p] # pe[p]>>_vars

(***************************************************************************)
(* The calls of plp_mat_mult_trans_i16vp_xpulpv2 alone, with cores that    *)
(* keep executing: weak fairness of entering the kernel, of the return     *)
(* from rt_team_barrier() and of the iterations of the row loop (written   *)
(* out as in SpecFair).                                                    *)
(***************************************************************************)
InitBarrier == Init /\ args.kernel = MULT_I16VP

NextBarrier ==
    \/ Enter /\ UNCHANGED alt
    \/ \E p \in PE : Row(p) /\ UNCHANGED alt
    \/ \E p \in PE : Barrier(p) /\ UNCHANGED alt

SpecBarrier ==
    /\ InitBarrier
    /\ [][NextBarrier]_vars
    /\ WF_vars(Enter /\ UNCHANGED alt)
    /\ WF_vars(\E p \in PE : Barrier(p) /\ UNCHANGED alt)
    /\ \/ []<>~(\E p \in PE : RowEn(Run, p))
       \/ []<><<\E p \in PE : RowEn(Run, p) /\ pe'[p] # pe[p]>>_vars

(***************************************************************************)
(* The same call made twice on the same logical M x N contents: once on    *)
(* the caller's strides and once, in alt, on dense rows (every stride N).  *)
(* Both runs take the same steps.                                          *)
(***************************************************************************)
InitStride ==
    \E k \in Elementwise : \E u \in Builds(k) : \E N \in 0..NMax(k, u) :
       \E M \in 0..MaxM, n \in Teams(k), pa \in 0..MaxPad, pb \in PadsB(k), py \in 0..MaxPad :
          /\ Starts(Call(ElemArg(k, u, M, N, n, pa, pb, py)))
          /\ alt = Call(ElemArg(k, u, M, N, n, 0, 0, 0))

NextStride ==
    \/ Enter /\ alt' = EnterR(alt)
    \/ \E p \in PE : Row(p) /\ alt' = RowR(alt, p)
    \/ \E p \in PE : Rem(p) /\ alt' = TailR(alt, p)

SpecStride == InitStride /\ [][NextStride]_vars

(***************************************************************************)
(* The two builds of a scalar kernel called with the same arguments on the *)
(* same buffers: the variables hold the run of the build with              *)
(* PLP_MATH_LOOPUNROLL defined, alt the run of the build without it, which *)
(* starts when the first has returned.                                     *)
(***************************************************************************)
InitBuild ==
    \E k \in {x \in Elementwise : Builds(x) = BOOLEAN} : \E N \in 0..NMax(k, TRUE) :
       \E M \in 0..MaxM, pa \in 0..MaxPad, pb \in PadsB(k), py \in 0..MaxPad :
          /\ Starts(Call(ElemArg(k, TRUE, M, N, 1, pa, pb, py)))
          /\ alt = Call(ElemArg(k, FALSE, M, N, 1, pa, pb, py))

\* the plain build enters the kernel
EnterPlain ==
    /\ \A p \in PE : pe[p].pc = "done"
    /\ EnterEn(alt)
    /\ alt' = EnterR(alt)
    /\ UNCHANGED <<args, bufA, bufB, bufY, pe, writers, rows, stray>>

\* one iteration of the row loop of the plain build
RowPlain(p) ==
    /\ RowEn(alt, p)
    /\ alt' = RowR(alt, p)
    /\ UNCHANGED <<args, bufA, bufB, bufY, pe, writers, rows, stray>>

NextBuild ==
    \/ Enter /\ UNCHANGED alt
    \/ \E p \in PE : Row(p) /\ UNCHANGED alt
    \/ \E p \in PE : Rem(p) /\ UNCHANGED alt
    \/ EnterPlain
    \/ \E p \in PE : RowPlain(p)

SpecBuild == InitBuild /\ [][NextBuild]_vars

(***************************************************************************)
(* The parallel 16-bit copy called by a team of one processing element     *)
(* (nPE = 1, core_id = 0) beside the unrolled scalar 16-bit copy called    *)
(* with the same arguments on the same buffers: the variables hold the run *)
(* of plp_mat_copy_stride_i16p_xpulpv2, alt the run of                     *)
(* plp_mat_copy_stride_i16s_xpulpv2, and the two advance row by row.       *)
(***************************************************************************)
InitSingle ==
    \E N \in 0..NMax(COPY_I16P, TRUE) : \E M \in 0..MaxM, pa \in 0..MaxPad, py \in 0..MaxPad :
       /\ Starts(Call(ElemArg(COPY_I16P, TRUE, M, N, 1, pa, 0, py)))
       /\ alt = Call(ElemArg(COPY_I16S_XP, TRUE, M, N, 1, pa, 0, py))

NextSingle ==
    \/ Enter /\ alt' = EnterR(alt)
    \/ \E p \in PE : Row(p) /\ alt' = RowR(alt, p)

SpecSingle == InitSingle /\ [][NextSingle]_vars

(***************************************************************************)
(* The kernels called with pSrcA (pSrc) placed in memory directly behind   *)
(* the M rows of the destination: the element pDst[M * strideY + i], row M *)
(* of bufY, is the element pSrcA[i].                                       *)
(***************************************************************************)
\* the variables take the run r; a store behind the destination rows lands in pSrcA
BecomesBehind(r) ==
    /\ bufA' = [i \in DOMAIN r.bufA |->
                   LET y == r.args.M * r.args.strideY + i
                   IN  IF y \in DOMAIN r.writers /\ r.writers[y] # {} THEN r.bufY[y]
                       ELSE r.bufA[i]]
    /\ bufY' = r.bufY
    /\ pe' = r.pe
    /\ writers' = r.writers
    /\ rows' = r.rows
    /\ stray' = r.stray
    /\ UNCHANGED <<args, bufB, alt>>

NextBehind ==
    \/ Enter /\ UNCHANGED alt
    \/ \E p \in PE : RowEn(Run, p) /\ BecomesBehind(RowR(Run, p))
    \/ \E p \in PE : TailEn(Run, p) /\ BecomesBehind(TailR(Run, p))
    \/ \E p \in PE : Barrier(p) /\ UNCHANGED alt

SpecBehind == Init /\ [][NextBehind]_vars

(***************************************************************************)
(* The add, subtract and copy kernels on 3 x 5 matrices with all strides   *)
(* 5, pSrcA filled with 1..15 and pSrcB with 15..1.                        *)
(***************************************************************************)
InitScenario ==
    /\ alt = <<>>
    /\ \E k \in Elementwise : \E u \in Builds(k) : \E n \in Teams(k) :
          Starts([Call(ElemArg(k, u, 3, 5, n, 0, 0, 0)) EXCEPT
                     !.bufA = [i \in DOMAIN @ |-> IF i < 15 THEN i + 1 ELSE @[i]],
                     !.bufB = [i \in DOMAIN @ |-> IF i < 15 THEN 15 - i ELSE @[i]]])

NextScenario ==
    \/ Enter /\ UNCHANGED alt
    \/ \E p \in PE : Row(p) /\ UNCHANGED alt
    \/ \E p \in PE : Rem(p) /\ UNCHANGED alt

SpecScenario == InitScenario /\ [][NextScenario]_vars

(***************************************************************************)
(* IEEE-754 binary32 values ("float").  A finite non-zero value is         *)
(* [k |-> "fin", s, e, m] and stands for (-1)^s * m * 2^e with             *)
(* 0 < m < 2^24, e >= -149, and m >= 2^23 unless e = -149 (subnormal).     *)
(* Zeros and infinities carry a sign; NaN is a single value.  Every        *)
(* operation rounds to nearest, ties to even.                              *)
(***************************************************************************)
RECURSIVE BitLen(_)
BitLen(n) == IF n = 0 THEN 0 ELSE 1 + BitLen(n \div 2)

FZero(s) == [k |-> "zero", s |-> s, e |-> 0, m |-> 0]
FInf(s) == [k |-> "inf", s |-> s, e |-> 0, m |-> 0]
FNaN == [k |-> "nan", s |-> 0, e |-> 0, m |-> 0]

\* the float nearest to (-1)^s * (sig + t) * 2^e, where 0 < sig < 2^30 and t is 0, or some
\* value strictly between 0 and 1 when sticky holds
RoundPack(s, e, sig, sticky) ==
    LET L == BitLen(sig)
        e1 == IF e + L - 24 < -149 THEN -149 ELSE e + L - 24
        sh == e1 - e
        q == IF sh <= 0 THEN sig * 2^(-sh) ELSE IF sh > 30 THEN 0 ELSE sig \div 2^sh
        rem == IF sh <= 0 THEN 0 ELSE IF sh > 30 THEN 1 ELSE sig % 2^sh
        mid == IF sh <= 0 THEN 1 ELSE IF sh > 30 THEN 2 ELSE 2^(sh - 1)
        up == \/ rem > mid
              \/ rem = mid /\ (sticky \/ q % 2 = 1)
        m1 == IF up THEN q + 1 ELSE q
        m2 == IF m1 = 16777216 THEN 8388608 ELSE m1
        e2 == IF m1 = 16777216 THEN e1 + 1 ELSE e1
    IN  IF m2 = 0 THEN FZero(s)
        ELSE IF e2 > 104 THEN FInf(s)
        ELSE [k |-> "fin", s |-> s, e |-> e2, m |-> m2]

\* the float of the integer mantissa m (|m| < 2^24) times 2^e
F(m, e) == IF m = 0 THEN FZero(0) ELSE RoundPack(IF m < 0 THEN 1 ELSE 0, e, IF m < 0 THEN -m ELSE m, FALSE)

FNeg(a) == IF a.k = "nan" THEN a ELSE [a EXCEPT !.s = 1 - a.s]

\* a * b
FMul(a, b) ==
    LET s == (a.s + b.s) % 2
        aH == a.m \div 4096
        aL == a.m % 4096
        bH == b.m \div 4096
        bL == b.m % 4096
        mid == aH * bL + aL * bH
        low == aL * bL + (mid % 4096) * 4096
        lo24 == low % 16777216
        high == aH * bH + mid \div 4096 + low \div 16777216
        d == IF BitLen(high) > 6 THEN BitLen(high) - 6 ELSE 0
    IN  CASE a.k = "nan" \/ b.k = "nan" -> FNaN
          [] a.k = "inf" -> IF b.k = "zero" THEN FNaN ELSE FInf(s)
          [] b.k = "inf" -> IF a.k = "zero" THEN FNaN ELSE FInf(s)
          [] a.k = "zero" \/ b.k = "zero" -> FZero(s)
          [] OTHER -> RoundPack(s, a.e + b.e + d, high * 2^(24 - d) + lo24 \div 2^d,
                                lo24 % 2^d # 0)

\* a + b for finite non-zero a and b with a.e >= b.e: three guard bits, the bits shifted out
\* of b kept as a sticky last bit
FAddFin(a, b) ==
    LET d == a.e - b.e
        A == a.m * 8
        B0 == b.m * 8
        B1 == IF d > 27 THEN 1 ELSE (B0 \div 2^d) + (IF (B0 % 2^d) # 0 /\ (B0 \div 2^d) % 2 = 0 THEN 1 ELSE 0)
        v == (IF a.s = 1 THEN -A ELSE A) + (IF b.s = 1 THEN -B1 ELSE B1)
    IN  IF v = 0 THEN FZero(0)
        ELSE RoundPack(IF v < 0 THEN 1 ELSE 0, a.e - 3, IF v < 0 THEN -v ELSE v, FALSE)

\* a + b
FAdd(a, b) ==
    CASE a.k = "nan" \/ b.k = "nan" -> FNaN
      [] a.k = "inf" -> IF b.k = "inf" /\ b.s # a.s THEN FNaN ELSE a
      [] b.k = "inf" -> b
      [] a.k = "zero" -> IF b.k = "zero" THEN FZero(IF a.s = 1 /\ b.s = 1 THEN 1 ELSE 0) ELSE b
      [] b.k = "zero" -> a
      [] OTHER -> IF a.e >= b.e THEN FAddFin(a, b) ELSE FAddFin(b, a)

\* a - b
FSub(a, b) == FAdd(a, FNeg(b))

\* n steps of the long division of r by d (r < 2 * d), quotient bits collected in q
RECURSIVE LongDiv(_, _, _, _)
LongDiv(r, d, q, n) ==
    IF n = 0 THEN <<q, r>>
    ELSE IF r >= d THEN LongDiv(2 * (r - d), d, 2 * q + 1, n - 1)
    ELSE LongDiv(2 * r, d, 2 * q, n - 1)

\* a / b
FDiv(a, b) ==
    LET s == (a.s + b.s) % 2
        la == 24 - BitLen(a.m)
        lb == 24 - BitLen(b.m)
        qr == LongDiv(a.m * 2^la, b.m * 2^lb, 0, 27)
    IN  CASE a.k = "nan" \/ b.k = "nan" -> FNaN
          [] a.k = "inf" -> IF b.k = "inf" THEN FNaN ELSE FInf(s)
          [] b.k = "inf" -> FZero(s)
          [] b.k = "zero" -> IF a.k = "zero" THEN FNaN ELSE FInf(s)
          [] a.k = "zero" -> FZero(s)
          [] OTHER -> RoundPack(s, (a.e - la) - (b.e - lb) - 26, qr[1], qr[2] # 0)

\* a > b for b = 0
FGtZero(a) == a.k \in {"fin", "inf"} /\ a.s = 0

(***************************************************************************)
(* plp_sqrt_f32s_xpulpv2.  The kernel runs on one core; *pSrc is cell 0 of *)
(* bufA and *pRes cell 0 of bufY.  Its locals (intermediate, half, i) are  *)
(* in pe[0]; rows[0] lists the values of i the loop body ran with and      *)
(* pe[0].stores counts the stores to *pRes.  One action is the two         *)
(* declarations with the test of half, one loop iteration with the loop    *)
(* test that follows it, or one of the two stores.  Every floating-point   *)
(* operation is rounded on its own.                                        *)
(***************************************************************************)
SQRT_F32S == "plp_sqrt_f32s_xpulpv2"

numIters == 15

\* the literals 1.f, 2.f (also the int 2 converted for *pSrc / 2), 1.5f and 0.f
One == F(1, 0)
Two == F(2, 0)
OnePointFive == F(3, -1)

\* float intermediate = 1.f / (2.f * (*pSrc))
sqrt_seed(x) == FDiv(One, FMul(Two, x))

\* float half = *pSrc / 2
sqrt_half(x) == FDiv(x, Two)

\* a guard that also lets a half of 0 through
sqrt_guard_nonneg(half) == half.k # "nan" /\ half.s = 0

\* if (half > 0)
sqrt_guard(half) == FGtZero(half)

\* intermediate * (1.5f - (intermediate * intermediate * half))
sqrt_refine(intermediate, half) ==
    FMul(intermediate, FSub(OnePointFive, FMul(FMul(intermediate, intermediate), half)))

\* i < numIters
sqrt_looptest(i) == IF i < numIters THEN "loop" ELSE "result"

\* the state in which the kernel is called on the input x; *pRes holds what the caller left
SqrtCall(x) ==
    [args |-> [kernel |-> SQRT_F32S, nPE |-> 1],
     bufA |-> [j \in {0} |-> x],
     bufB |-> <<>>,
     bufY |-> [j \in {0} |-> F(-1, 0)],
     pe |-> [p \in {0} |-> [pc |-> "start", i |-> 0, intermediate |-> FZero(0),
                            half |-> FZero(0), stores |-> 0]],
     writers |-> [j \in {0} |-> {}],
     rows |-> [p \in {0} |-> <<>>],
     stray |-> {}]

\* the square roots a * 2^k whose squares are the positive and negative inputs
MaxExp == 10
SqrtRoots == {F(a, k) : a \in {1, 3}, k \in -MaxExp..MaxExp}

\* the inputs: squares and their negatives, the zeros, the smallest positive and negative
\* floats and minus infinity
SqrtInputs ==
    {FMul(r, r) : r \in SqrtRoots} \cup {FNeg(FMul(r, r)) : r \in SqrtRoots}
        \cup {FZero(0), FZero(1), F(1, -149), F(-1, -149), FInf(1)}

InitSqrt == alt = <<>> /\ \E x \in SqrtInputs : Starts(SqrtCall(x))

\* lines 60-63: the declarations of intermediate and half and the test of half
SqrtStart ==
    /\ pe[0].pc = "start"
    /\ pe' = [pe EXCEPT ![0].intermediate = sqrt_seed(bufA[0]),
                        ![0].half = sqrt_half(bufA[0]),
                        ![0].i = 0,
                        ![0].pc = IF sqrt_guard(sqrt_half(bufA[0]))
                                  THEN sqrt_looptest(0) ELSE "else"]
    /\ UNCHANGED <<args, bufA, bufB, bufY, writers, rows, stray, alt>>

\* lines 64-66: one iteration of the loop, i++ and the loop test
SqrtIter ==
    /\ pe[0].pc = "loop"
    /\ pe' = [pe EXCEPT ![0].intermediate = sqrt_refine(pe[0].intermediate, pe[0].half),
                        ![0].i = pe[0].i + 1,
                        ![0].pc = sqrt_looptest(pe[0].i + 1)]
    /\ rows' = [rows EXCEPT ![0] = Append(@, pe[0].i)]
    /\ UNCHANGED <<args, bufA, bufB, bufY, writers, stray, alt>>

\* line 68: *pRes = intermediate * (*pSrc)
SqrtResult ==
    /\ pe[0].pc = "result"
    /\ bufY' = [bufY EXCEPT ![0] = FMul(pe[0].intermediate, bufA[0])]
    /\ writers' = [writers EXCEPT ![0] = @ \cup {0}]
    /\ pe' = [pe EXCEPT ![0].pc = "done", ![0].stores = @ + 1]
    /\ UNCHANGED <<args, bufA, bufB, rows, stray, alt>>

\* line 70: *pRes = 0.f
SqrtZero ==
    /\ pe[0].pc = "else"
    /\ bufY' = [bufY EXCEPT ![0] = FZero(0)]
    /\ writers' = [writers EXCEPT ![0] = @ \cup {0}]
    /\ pe' = [pe EXCEPT ![0].pc = "done", ![0].stores = @ + 1]
    /\ UNCHANGED <<args, bufA, bufB, rows, stray, alt>>

NextSqrt ==
    \/ SqrtStart
    \/ SqrtIter
    \/ SqrtResult
    \/ SqrtZero

SpecSqrt == InitSqrt /\ [][NextSqrt]_vars

(***************************************************************************)
(* Reference values the properties compare the kernels with.               *)
(***************************************************************************)
\* every processing element has returned from the kernel
AllDone == \A p \in PE : pe[p].pc = "done"

\* processing element p has left its row loop
PastLoop(p) == pe[p].pc \in {"tail", "barrier", "done"}

\* a + b reduced modulo 2^w into the signed w-bit range
RefSum(w, a, b) ==
    IF b > 0 /\ a > MaxOf(w) - b THEN (a - MaxOf(w) - 1) + (b - MaxOf(w) - 1)
    ELSE IF b < 0 /\ a < MinOf(w) - b THEN (a + MaxOf(w) + 1) + (b + MaxOf(w) + 1)
    ELSE a + b

\* a - b reduced modulo 2^w into the signed w-bit range (w < 32)
RefDiff(w, a, b) ==
    IF a - b > MaxOf(w) THEN a - b - 2 * MaxOf(w) - 2
    ELSE IF a - b < MinOf(w) THEN a - b + 2 * MaxOf(w) + 2
    ELSE a - b

\* the value the row-major double loop leaves at logical position (m, n) of run r
RefCell(r, m, n) ==
    LET x == r.bufA[m * r.args.strideA + n]
        y == r.bufB[m * r.args.strideB + n]
        w == Width(r.args.kernel)
    IN  CASE r.args.kernel \in AddKernels -> RefSum(w, x, y)
          [] r.args.kernel \in SubKernels -> RefDiff(w, x, y)
          [] OTHER -> x

\* the logical positions of the M x N matrices of the call
Cells == (0..(args.M - 1)) \X (0..(args.N - 1))

\* how often row m has been processed, over all processing elements
Processed(m) ==
    LET Occ == {<<p, j>> \in PE \X (1..(args.M + 1)) : j <= Len(rows[p]) /\ rows[p][j] = m}
    IN  Cardinality(Occ)

\* the rows m < M with m mod nPE = p, in increasing order
RoundRobin(p) ==
    LET S == {m \in 0..(args.M - 1) : m % args.nPE = p}
    IN  [j \in 1..Cardinality(S) |-> CHOOSE m \in S : Cardinality({x \in S : x < m}) = j - 1]

\* q is an initial part of the sequence e
IsPrefix(q, e) == Len(q) <= Len(e) /\ \A j \in 1..Len(q) : q[j] = e[j]

\* the call selects the case of plp_mat_copy_stride_i8p_xpulpv2 that contains no row loop
NoLoopCase == args.kernel = COPY_I8P /\ args.N = 0

\* the 32-bit sum over n of pSrcA[m*N + n] * pSrcB[o*N + n], modulo 2^32
RECURSIVE RefDot(_, _, _)
RefDot(m, o, n) ==
    IF n = 0 THEN 0
    ELSE RefSum(32, RefDot(m, o, n - 1),
                bufA[m * args.N + n - 1] * bufB[o * args.N + n - 1])

(***************************************************************************)
(* C1.  Strided add: once every processing element of an add kernel has    *)
(* returned, pDst[m*strideY + n] = pSrcA[m*strideA + n] + pSrcB[m*strideB  *)
(* + n], wrapped to the element width, for all m < M, n < N.               *)
(***************************************************************************)
C1_StridedAdd ==
    (args.kernel \in AddKernels /\ AllDone) =>
        \A c \in Cells :
            bufY[c[1] * args.strideY + c[2]]
                = RefSum(Width(args.kernel), bufA[c[1] * args.strideA + c[2]],
                         bufB[c[1] * args.strideB + c[2]])

\* a finished parallel 8-bit add over two processing elements with blocks, blk and rem,
\* padded output rows and a sum that wrapped
C1_Witness ==
    /\ args.kernel = ADD_I8P /\ AllDone
    /\ args.M = 3 /\ args.N = 13 /\ args.nPE = 2 /\ args.strideY > args.N
    /\ bufA[0] + bufB[0] > MaxOf(8) /\ bufY[0] < 0

(***************************************************************************)
(* C2.  Strided subtract: once a subtract kernel has returned (either      *)
(* build), pDst[m*strideY + n] = pSrcA[m*strideA + n] - pSrcB[m*strideB +  *)
(* n], wrapped to 16 bits, for all m < M, n < N.                           *)
(***************************************************************************)
C2_StridedSub ==
    (args.kernel \in SubKernels /\ AllDone) =>
        \A c \in Cells :
            bufY[c[1] * args.strideY + c[2]]
                = RefDiff(16, bufA[c[1] * args.strideA + c[2]],
                          bufB[c[1] * args.strideB + c[2]])

\* a finished unrolled xpulpv2 subtraction with a block, blk and rem and a wrapped difference
C2_Witness ==
    /\ args.kernel = SUB_I16S_XP /\ args.LOOPUNROLL /\ AllDone
    /\ args.M = 3 /\ args.N = 7 /\ args.strideA > args.N /\ args.strideY = args.N
    /\ bufA[1] - bufB[1] < MinOf(16) /\ bufY[1] > 0

(***************************************************************************)
(* C3.  Strided copy: once a copy kernel has completed (all processing     *)
(* elements returned), pDst[m*strideDst + n] = pSrc[m*strideSrc + n] for   *)
(* all m < M, n < N.                                                       *)
(***************************************************************************)
C3_StridedCopy ==
    (args.kernel \in CopyKernels /\ AllDone) =>
        \A c \in Cells :
            bufY[c[1] * args.strideY + c[2]] = bufA[c[1] * args.strideA + c[2]]

\* a finished unrolled two-row 16-bit copy of an odd number of odd-width rows
C3_Witness ==
    /\ args.kernel = COPY_I16S_RV /\ args.LOOPUNROLL /\ AllDone
    /\ args.M = 3 /\ args.N = 3 /\ args.strideA > args.N /\ args.strideY > args.N
    /\ bufY[2 * args.strideY + 2] = LA(16, 8)

\* every processing element has left its row loop
AllPastLoop == \A p \in PE : PastLoop(p)

\* the destination cells processing element p has stored to
Written(p) == {i \in DOMAIN writers : p \in writers[i]}

(***************************************************************************)
(* C4.  Partition completeness and disjointness: in a parallel kernel run  *)
(* with 1 <= nPE <= M, no row is ever processed twice and only rows below  *)
(* M are processed; once every processing element has left its row loop    *)
(* each row 0..M-1 has been processed exactly once - except in the call of *)
(* plp_mat_copy_stride_i8p_xpulpv2 with N = 0, which has no row loop and   *)
(* processes no row.                                                       *)
(***************************************************************************)
C4_Partition ==
    (args.kernel \in ParallelKernels /\ 1 <= args.nPE /\ args.nPE <= args.M) =>
        /\ \A p \in PE : \A j \in 1..Len(rows[p]) : rows[p][j] \in 0..(args.M - 1)
        /\ \A m \in 0..(args.M - 1) : Processed(m) <= 1
        /\ AllPastLoop =>
              \A m \in 0..(args.M - 1) : Processed(m) = IF NoLoopCase THEN 0 ELSE 1

\* C4 as stated, without the exception: every row is processed exactly once
C4_Orig ==
    (args.kernel \in ParallelKernels /\ 1 <= args.nPE /\ args.nPE <= args.M /\ AllPastLoop) =>
        \A m \in 0..(args.M - 1) : Processed(m) = 1

\* three rows of width 5 shared by two processing elements, both past their loops
C4_Witness ==
    /\ args.kernel = COPY_I8P /\ args.M = 3 /\ args.N = 5 /\ args.nPE = 2
    /\ AllPastLoop
    /\ Processed(0) = 1 /\ Processed(1) = 1 /\ Processed(2) = 1

(***************************************************************************)
(* C5.  Round-robin assignment: in a parallel kernel the processing        *)
(* element with core_id p processes the rows p, p + nPE, p + 2*nPE, ...    *)
(* below M in this order and no others: what it has processed is always an *)
(* initial part of that sequence, and all of it once it has left its row   *)
(* loop - except in the call of plp_mat_copy_stride_i8p_xpulpv2 with N =   *)
(* 0, where it processes no row.                                           *)
(***************************************************************************)
C5_RoundRobin ==
    args.kernel \in ParallelKernels =>
        \A p \in PE :
            /\ IsPrefix(rows[p], RoundRobin(p))
            /\ PastLoop(p) => rows[p] = IF NoLoopCase THEN <<>> ELSE RoundRobin(p)

\* C5 as stated, without the exception
C5_Orig ==
    args.kernel \in ParallelKernels =>
        \A p \in PE :
            /\ IsPrefix(rows[p], RoundRobin(p))
            /\ PastLoop(p) => rows[p] = RoundRobin(p)

\* core 0 of two has processed rows 0 and 2 of a multiplication while core 1 has not run a row
C5_Witness ==
    /\ args.kernel = MULT_I16VP /\ args.M = 3 /\ args.nPE = 2 /\ args.O = 2 /\ args.N = 2
    /\ PastLoop(0) /\ rows[0] = <<0, 2>>
    /\ pe[1].pc = "loop" /\ rows[1] = <<>>

(***************************************************************************)
(* C6.  Matrix-multiply barrier: whenever a processing element has         *)
(* returned from plp_mat_mult_trans_i16vp_xpulpv2, every processing        *)
(* element has finished its row loop and all M*O entries of pDstC hold     *)
(* their final values, the 32-bit dot products of the rows of A and B.     *)
(***************************************************************************)
C6_Barrier ==
    (args.kernel = MULT_I16VP /\ \E p \in PE : pe[p].pc = "done") =>
        /\ \A q \in PE : pe[q].pc \in {"barrier", "done"}
        /\ \A m \in 0..(args.M - 1) : \A o \in 0..(args.O - 1) :
              bufY[m * args.O + o] = RefDot(m, o, args.N)

\* one of two processing elements has returned while the other still waits in the barrier
C6_Witness ==
    /\ args.kernel = MULT_I16VP /\ args.nPE = 2 /\ args.M = 3 /\ args.O = 2 /\ args.N = 2
    /\ pe[1].pc = "done" /\ pe[0].pc = "barrier"
    /\ bufY[5] = RefDot(2, 1, 2) /\ bufY[5] # -1

(***************************************************************************)
(* C7.  Write disjointness: in a parallel kernel no destination cell is    *)
(* ever written by two processing elements, in any interleaving.           *)
(***************************************************************************)
C7_WriteDisjoint ==
    args.kernel \in ParallelKernels =>
        \A p \in PE : \A q \in PE : p # q => Written(p) \cap Written(q) = {}

\* two processing elements have written their own rows of a dense destination: core 0 the
\* rows 0 and 2, core 1 the row between them
C7_Witness ==
    /\ args.kernel = ADD_I16P /\ args.nPE = 2 /\ args.M = 3 /\ args.N = 3
    /\ args.strideY = args.N
    /\ Written(0) = (0..2) \cup (6..8) /\ Written(1) = 3..5

(***************************************************************************)
(* C8.  Edge case M < nPE: in a parallel kernel a processing element with  *)
(* core_id >= M processes no row and writes no destination cell, no access *)
(* leaves the buffers, and once every processing element has left its row  *)
(* loop each row m < M has been processed exactly once, by the processing  *)
(* element m - except in the call of plp_mat_copy_stride_i8p_xpulpv2 with  *)
(* N = 0, where no row is processed.                                       *)
(***************************************************************************)
C8_FewRows ==
    (args.kernel \in ParallelKernels /\ args.M < args.nPE) =>
        /\ \A p \in PE : p >= args.M => rows[p] = <<>> /\ Written(p) = {}
        /\ stray = {}
        /\ AllPastLoop =>
              \A m \in 0..(args.M - 1) :
                  IF NoLoopCase THEN Processed(m) = 0
                  ELSE Processed(m) = 1 /\ rows[m] = <<m>>

\* C8 as stated, without the exception
C8_Orig ==
    (args.kernel \in ParallelKernels /\ args.M < args.nPE) =>
        /\ \A p \in PE : p >= args.M => rows[p] = <<>> /\ Written(p) = {}
        /\ stray = {}
        /\ AllPastLoop => \A m \in 0..(args.M - 1) : Processed(m) = 1 /\ rows[m] = <<m>>

\* one row and two processing elements, both returned: core 0 wrote the row, core 1 nothing
C8_Witness ==
    /\ args.kernel = ADD_I16P /\ args.M = 1 /\ args.nPE = 2 /\ args.N = 3
    /\ AllDone
    /\ rows[0] = <<0>> /\ rows[1] = <<>>
    /\ Written(0) = 0..2 /\ Written(1) = {}

(***************************************************************************)
(* C9.  Stride independence: a run of an elementwise kernel with any       *)
(* strides (each at least N) and the run of the same kernel on the same    *)
(* logical M x N contents laid out densely leave the same value at every   *)
(* logical position (m, n) of the destination once they have returned; so  *)
(* any two choices of strides yield the same logical output.               *)
(***************************************************************************)
C9_StrideIndependent ==
    (args.kernel \in Elementwise /\ AllDone) =>
        \A c \in Cells :
            bufY[c[1] * args.strideY + c[2]] = alt.bufY[c[1] * alt.args.strideY + c[2]]

\* a returned unrolled two-row copy of 3 x 3 values, run with padded rows and run dense: the
\* same value sits at index 10 of one destination and at index 8 of the other
C9_Witness ==
    /\ args.kernel = COPY_I16S_RV /\ args.LOOPUNROLL /\ args.M = 3 /\ args.N = 3
    /\ AllDone
    /\ args.strideA = 4 /\ args.strideY = 4 /\ alt.args.strideA = 3 /\ alt.args.strideY = 3
    /\ bufY[10] = alt.bufY[8] /\ bufY[10] # -1
    /\ bufY # alt.bufY

(***************************************************************************)
(* C10.  Remainder-case coverage: for a kernel whose inner step handles k  *)
(* > 1 elements and a row width N of any remainder class modulo k, a call  *)
(* with N = 0 writes no destination cell, and once the kernel has returned *)
(* every logical cell holds what the plain row-major double loop computes. *)
(***************************************************************************)
C10_Remainders ==
    (args.kernel \in Elementwise /\ StepOf(args.kernel, args.LOOPUNROLL) > 1) =>
        /\ args.N = 0 => \A i \in DOMAIN bufY : writers[i] = {} /\ bufY[i] = -1
        /\ AllDone => \A c \in Cells : bufY[c[1] * args.strideY + c[2]] = RefCell(Run, c[1], c[2])

\* a returned 8-bit add of rows narrower than one block: no full block, one blk and three rem
C10_Witness ==
    /\ args.kernel = ADD_I8P /\ args.N = 7 /\ args.M = 2 /\ args.nPE = 2
    /\ AllDone
    /\ \A c \in Cells : bufY[c[1] * args.strideY + c[2]] = RefCell(Run, c[1], c[2])
    /\ bufY[6] # -1

\* the scalar operation of an add or subtract kernel, as its scalar tail computes it
TailOp(k, a, b) ==
    CASE k = ADD_I32S -> Add_i32(a, b)
      [] k = ADD_I16P -> Add_i16(a, b)
      [] k = ADD_I8P -> Add_i8(a, b)
      [] OTHER -> Sub_i16(a, b)

\* the packed operation of an add or subtract kernel on vectors of its lanes
PackedOp(k, x, y) ==
    CASE k = ADD_I16P -> ADD2(x, y)
      [] k = ADD_I8P -> ADD4(x, y)
      [] OTHER -> SUB2(x, y)

\* lanes of the packed operation of kernel k (1 where it has none)
Lanes(k) == CASE k = ADD_I8P -> 4 [] k \in {ADD_I16P, SUB_I16S_XP} -> 2 [] OTHER -> 1

\* (a OP b) reduced modulo 2^w into the signed w-bit range, OP the operation of kernel k
RefOp(k, a, b) == IF k \in AddKernels THEN RefSum(Width(k), a, b) ELSE RefDiff(Width(k), a, b)

(***************************************************************************)
(* C11.  Per-lane wraparound: in the add and subtract kernels every        *)
(* destination element that has been written equals (a OP b) reduced       *)
(* modulo 2^w into the signed w-bit range (never saturated), whether a     *)
(* packed lane or the scalar tail produced it; and the packed operation    *)
(* applied to Lanes(k) neighbouring operands gives in every lane what the  *)
(* scalar operation gives for that lane's operands alone.                  *)
(***************************************************************************)
C11_LaneWrap ==
    args.kernel \in AddKernels \cup SubKernels =>
        \A c \in Cells :
            LET k == args.kernel
                a(j) == bufA[c[1] * args.strideA + c[2] + j]
                b(j) == bufB[c[1] * args.strideB + c[2] + j]
                y == c[1] * args.strideY + c[2]
            IN  /\ writers[y] # {} =>
                      bufY[y] = RefOp(k, a(0), b(0)) /\ bufY[y] = TailOp(k, a(0), b(0))
                /\ (Lanes(k) > 1 /\ c[2] + Lanes(k) <= args.N) =>
                      \A j \in 1..Lanes(k) :
                          PackedOp(k, [i \in 1..Lanes(k) |-> a(i - 1)],
                                   [i \in 1..Lanes(k) |-> b(i - 1)])[j]
                              = RefOp(k, a(j - 1), b(j - 1))

\* a returned 8-bit add of rows of width 13 in which a sum computed in a packed lane (column
\* 0) and a sum computed by the scalar tail (column 12) both passed 127 and wrapped
C11_Witness ==
    /\ args.kernel = ADD_I8P /\ args.N = 13 /\ args.M = 1 /\ args.nPE = 1 /\ AllDone
    /\ bufA[0] + bufB[0] = 128 /\ bufY[0] = -128
    /\ bufA[12] + bufB[12] = 140 /\ bufY[12] = -116

\* x <= 0: the zeros and every negative value
NonPositive(x) == x.k = "zero" \/ (x.k \in {"fin", "inf"} /\ x.s = 1)

\* x > 0
Positive(x) == x.k \in {"fin", "inf"} /\ x.s = 0

\* the square-root kernel has returned
SqrtDone == args.kernel = SQRT_F32S /\ pe[0].pc = "done"

(***************************************************************************)
(* C12.  Square-root guard: on an input <= 0 (a zero or any negative       *)
(* value) the kernel executes no refinement iteration, never reaches the   *)
(* store of line 68, and returns after exactly one store, which leaves     *)
(* exactly +0.0 in *pRes; it touches nothing outside *pSrc and *pRes.      *)
(***************************************************************************)
C12_SqrtGuard ==
    (args.kernel = SQRT_F32S /\ NonPositive(bufA[0])) =>
        /\ rows[0] = <<>>
        /\ pe[0].pc \in {"start", "else", "done"}
        /\ pe[0].stores = (IF pe[0].pc = "done" THEN 1 ELSE 0)
        /\ bufY[0] = (IF pe[0].pc = "done" THEN FZero(0) ELSE F(-1, 0))
        /\ stray = {}

\* the kernel has returned 0.0 for the input -9.0 without an iteration
C12_Witness ==
    /\ SqrtDone
    /\ bufA[0] = F(-9, 0)
    /\ bufY[0] = FZero(0)
    /\ rows[0] = <<>>

\* a <= b for floats that are not NaN
FLe(a, b) ==
    LET neg(x) == x.k # "zero" /\ x.s = 1
        \* |x| <= |y|
        le(x, y) ==
            CASE x.k = "zero" -> TRUE
              [] y.k = "inf" -> TRUE
              [] x.k = "inf" \/ y.k = "zero" -> FALSE
              [] OTHER -> x.e < y.e \/ (x.e = y.e /\ x.m <= y.m)
    IN  CASE neg(a) /\ ~neg(b) -> TRUE
          [] ~neg(a) /\ neg(b) -> FALSE
          [] neg(a) -> le(b, a)
          [] OTHER -> le(a, b)

\* the tolerance 1e-5 (as a float, 10995116 * 2^-40) and the ends 1e-6 and 1e6 of the domain
Tolerance == F(10995116, -40)
DomainLow == F(8796093, -43)
DomainHigh == F(15625, 6)

\* y is a number within the tolerance of r
Within(y, r) ==
    /\ y.k \in {"zero", "fin"}
    /\ FLe(FSub(y, r), Tolerance)
    /\ FLe(FSub(r, y), Tolerance)

(***************************************************************************)
(* C13.  Square-root accuracy: for every positive input x between 1e-6 and *)
(* 1e6, the value the kernel leaves in *pRes is within 1e-5 of sqrt(x)     *)
(* (the inputs are squares r * r, so sqrt(x) is the float r); this covers  *)
(* the inputs 4.0 and 1.0.                                                 *)
(***************************************************************************)
C13_Accuracy ==
    (SqrtDone /\ FLe(DomainLow, bufA[0]) /\ FLe(bufA[0], DomainHigh)) =>
        \E r \in SqrtRoots : FMul(r, r) = bufA[0] /\ Within(bufY[0], r)

\* the accuracy on the two inputs the claim names
C13_Named ==
    /\ (SqrtDone /\ bufA[0] = F(4, 0)) => Within(bufY[0], F(2, 0))
    /\ (SqrtDone /\ bufA[0] = F(1, 0)) => Within(bufY[0], F(1, 0))

(***************************************************************************)
(* C14.  Fixed iteration count: on every positive input the loop body runs *)
(* with i = 0, 1, ..., 14 and no more, the kernel never takes the else     *)
(* branch, and it returns after those 15 iterations and exactly one store  *)
(* to *pRes.                                                               *)
(***************************************************************************)
C14_FixedIterations ==
    (args.kernel = SQRT_F32S /\ Positive(bufA[0])) =>
        /\ pe[0].pc # "else"
        /\ Len(rows[0]) <= numIters
        /\ \A j \in 1..Len(rows[0]) : rows[0][j] = j - 1
        /\ pe[0].pc \in {"result", "done"} => Len(rows[0]) = numIters
        /\ pe[0].stores = (IF pe[0].pc = "done" THEN 1 ELSE 0)

\* both builds have returned
BothDone == AllDone /\ \A p \in DOMAIN alt.pe : alt.pe[p].pc = "done"

(***************************************************************************)
(* C15.  Unrolled versus plain build: when a scalar kernel with a          *)
(* PLP_MATH_LOOPUNROLL switch has returned in both builds, called with the *)
(* same arguments on equal buffers, the two destination buffers are equal  *)
(* in every element, for every M, N and strides >= N.                      *)
(***************************************************************************)
C15_BuildsAgree == BothDone => bufY = alt.bufY

\* the two builds agree on rows 0..M-1 of the destination, and on the whole destination
\* buffer except for plp_mat_copy_stride_i16s_rv32im with odd M
C15_AgreeBelowM ==
    BothDone =>
        /\ \A c \in Cells : bufY[c[1] * args.strideY + c[2]] = alt.bufY[c[1] * args.strideY + c[2]]
        /\ (args.kernel # COPY_I16S_RV \/ args.M % 2 = 0) => bufY = alt.bufY

\* the parallel kernels of the strided add and copy families
ParallelElementwise == ParallelKernels \cap Elementwise

(***************************************************************************)
(* C16.  No barrier in the parallel elementwise kernels: a processing      *)
(* element of plp_mat_add_stride_i16p/i8p_xpulpv2 or                       *)
(* plp_mat_copy_stride_i16p/i8p_xpulpv2 is never at a barrier; inside the  *)
(* kernel it is in its row loop or has returned, and in its row loop its   *)
(* next iteration can be taken whatever the other processing elements have *)
(* done; so it can return while rows of other processing elements are      *)
(* still unwritten.                                                        *)
(***************************************************************************)
C16_NoBarrier ==
    args.kernel \in ParallelElementwise =>
        \A p \in PE :
            /\ pe[p].pc \in {"start", "loop", "done"}
            /\ pe[p].pc = "loop" => RowEn(Run, p)
            /\ ~BarrierEn(Run, p)

\* processing element 0 has returned from the 16-bit parallel add of 2 rows while processing
\* element 1 has not started row 1, none of whose destination elements is written
C16_Witness ==
    /\ args.kernel = ADD_I16P /\ args.nPE = 2 /\ args.M = 2 /\ args.N = 3
    /\ pe[0].pc = "done" /\ rows[0] = <<0>>
    /\ pe[1].pc = "loop" /\ rows[1] = <<>>
    /\ \A n \in 0..2 : writers[args.strideY + n] = {} /\ bufY[args.strideY + n] = -1

\* the number of rows m < M with m mod nPE = core_id
RowCount(core_id, M, nPE) == IF core_id < M THEN (M - core_id + nPE - 1) \div nPE ELSE 0

\* the numbers of rows any two processing elements have processed differ by at most one
Balanced == \A p \in PE : \A q \in PE : Len(rows[p]) - Len(rows[q]) \in {-1, 0, 1}

(***************************************************************************)
(* C17.  Load balance: in a parallel kernel, once every processing element *)
(* has left its row loop the numbers of rows processed by any two of them  *)
(* differ by at most one; and in every interleaving the rows a processing  *)
(* element has processed when it leaves its loop are those fixed by        *)
(* (core_id, M, nPE) alone, RowCount(core_id, M, nPE) many - except in the *)
(* call of plp_mat_copy_stride_i8p_xpulpv2 with N = 0, where no processing *)
(* element processes any row.                                              *)
(***************************************************************************)
C17_LoadBalance ==
    args.kernel \in ParallelKernels =>
        /\ AllPastLoop => Balanced
        /\ \A p \in PE :
              PastLoop(p) =>
                  /\ Len(rows[p]) = (IF NoLoopCase THEN 0 ELSE RowCount(p, args.M, args.nPE))
                  /\ \A j \in 1..Len(rows[p]) : rows[p][j] = p + (j - 1) * args.nPE

\* C17 as stated, without the exception
C17_Orig ==
    args.kernel \in ParallelKernels =>
        /\ AllPastLoop => Balanced
        /\ \A p \in PE :
              PastLoop(p) =>
                  /\ Len(rows[p]) = RowCount(p, args.M, args.nPE)
                  /\ \A j \in 1..Len(rows[p]) : rows[p][j] = p + (j - 1) * args.nPE

\* both cores have returned from the 8-bit parallel add of 3 rows, core 0 after two rows and
\* core 1 after one
C17_Witness ==
    /\ args.kernel = ADD_I8P /\ args.M = 3 /\ args.nPE = 2 /\ args.N = 5
    /\ AllDone
    /\ Len(rows[0]) = 2 /\ Len(rows[1]) = 1

(***************************************************************************)
(* C18.  Inputs are read-only: at every step of every interleaving of a    *)
(* matrix kernel the buffers behind pSrcA (pSrc) and pSrcB hold the        *)
(* contents they had when the kernel was called.                           *)
(***************************************************************************)
C18_InputsReadOnly ==
    args.kernel \in Kernels => bufA = Call(args).bufA /\ bufB = Call(args).bufB

\* the inputs are read-only in every call but that of plp_mat_copy_stride_i16s_rv32im built
\* with PLP_MATH_LOOPUNROLL for an odd M and N > 0
C18_ButOddRows ==
    (args.kernel \in Kernels /\ ~(TwoRows(args) /\ args.kernel = COPY_I16S_RV
                                    /\ args.M % 2 = 1 /\ args.N > 0)) =>
        bufA = Call(args).bufA /\ bufB = Call(args).bufB

(***************************************************************************)
(* C19.  Concrete scenario: with M = 3, N = 5, all strides 5, A = 1..15    *)
(* and B = 15..1, when a kernel has returned on every processing element   *)
(* each of the 15 destination cells i holds 16 for an add kernel,          *)
(* A[i] - B[i] for a subtract kernel and A[i] for a copy kernel.           *)
(***************************************************************************)
C19_Scenario ==
    (AllDone /\ args.M = 3 /\ args.N = 5) =>
        \A i \in 0..14 :
            /\ bufA[i] = i + 1
            /\ args.kernel \notin CopyKernels => bufB[i] = 15 - i
            /\ bufY[i] = CASE args.kernel \in AddKernels -> 16
                           [] args.kernel \in SubKernels -> (i + 1) - (15 - i)
                           [] OTHER -> i + 1

\* plp_mat_sub_stride_i16s_xpulpv2 has returned in the scenario, with 1 - 15 in the first
\* and 15 - 1 in the last destination cell
C19_Witness ==
    /\ args.kernel = SUB_I16S_XP /\ args.LOOPUNROLL /\ args.M = 3 /\ args.N = 5
    /\ AllDone
    /\ bufA[0] = 1 /\ bufB[0] = 15 /\ bufY[0] = -14
    /\ bufA[14] = 15 /\ bufB[14] = 1 /\ bufY[14] = 14

\* inside an elementwise kernel no processing element is ever at a point where it waits
NoWaiting == \A p \in PE : pe[p].pc \in {"start", "loop", "tail", "done"} /\ ~BarrierEn(Run, p)

(***************************************************************************)
(* C20.  Run to completion: every call of a matrix kernel returns on every *)
(* processing element.  In an add, subtract or copy kernel no processing   *)
(* element is ever at a point where it waits for another; a scalar kernel  *)
(* that has returned has run its row loop M times - M >> 1 times, two rows *)
(* per iteration, followed by the m_rem block, in the unrolled builds of   *)
(* the i8s and i16s rv32im copy kernels - and a processing element of a    *)
(* parallel kernel that has returned has processed exactly its own rows -  *)
(* none in the call of plp_mat_copy_stride_i8p_xpulpv2 with N = 0.         *)
(***************************************************************************)
C20_RunToCompletion ==
    /\ <>AllDone
    /\ args.kernel \in Elementwise =>
          [](NoWaiting /\
             \A p \in PE :
                 pe[p].pc = "done" =>
                     IF args.kernel \in ParallelKernels
                     THEN rows[p] = (IF NoLoopCase THEN <<>> ELSE RoundRobin(p))
                     ELSE Len(rows[p]) = (IF TwoRows(args) THEN args.M \div 2 ELSE args.M))

\* C20 as stated, for the state in which a processing element has returned: M iterations of
\* the row loop in every scalar kernel, its own rows in every parallel kernel
C20_Orig ==
    args.kernel \in Elementwise =>
        /\ NoWaiting
        /\ \A p \in PE :
              pe[p].pc = "done" =>
                  IF args.kernel \in ParallelKernels
                  THEN rows[p] = RoundRobin(p)
                  ELSE Len(rows[p]) = args.M

\* core 1 has returned from the parallel 16-bit copy of 3 rows after its row 1, while core 0
\* has not yet run an iteration
C20_Witness ==
    /\ args.kernel = COPY_I16P /\ args.M = 3 /\ args.nPE = 2 /\ args.N = 3
    /\ pe[1].pc = "done" /\ rows[1] = <<1>>
    /\ pe[0].pc = "loop" /\ rows[0] = <<>>

\* the destination buffer the row-major double loop over m < M, n < N leaves, started on
\* the destination buffer of the call
RefLoop ==
    LET y0 == Call(args).bufY
    IN  [i \in DOMAIN bufY |->
            IF args.N > 0 /\ (i \div args.strideY) < args.M /\ (i % args.strideY) < args.N
            THEN RefCell(Run, i \div args.strideY, i % args.strideY)
            ELSE y0[i]]

RowAdvance(a, stride) ==
    CASE a.kernel = ADD_I16P -> add_i16p_step(stride, a.nPE, a.N)
      [] a.kernel = ADD_I8P -> add_i8p_step(stride, a.nPE, a.N)
      [] a.kernel = COPY_I16P -> copy_i16p_offset(stride, a.nPE, a.N, BitAnd(a.N, 1))
      [] a.kernel = COPY_I8P -> copy_i8p_offset(stride, a.nPE, a.N)

\* the operand pointers of processing element p stand at the start of row pe[p].m
AtRow(p) ==
    /\ pe[p].pSrcA = pe[p].m * args.strideA
    /\ pe[p].pDst = pe[p].m * args.strideY
    /\ args.kernel \in AddKernels => pe[p].pSrcB = pe[p].m * args.strideB

\* the n_rem cases of plp_mat_copy_stride_i16p_xpulpv2, whose copy of the last element leaves
\* the pointers in place
RemInPlace == args.kernel = COPY_I16P /\ BitAnd(args.N, 1) = 1

(***************************************************************************)
(* C22.  Pointer stepping in the parallel add and copy kernels: a          *)
(* processing element that has entered the kernel has its operand pointers *)
(* at base + m * stride whenever it is about to run the iteration for row  *)
(* m or has left the loop with counter m (m = core_id on entry); what it   *)
(* adds to a pointer at the end of a row is nPE * stride - N, and nPE *    *)
(* stride - N + 1 in the n_rem cases of the 16-bit copy.                   *)
(***************************************************************************)
C22_PointerStepping ==
    args.kernel \in ParallelElementwise =>
        \A p \in PE :
            pe[p].pc \in {"loop", "done"} =>
                /\ AtRow(p)
                /\ \A stride \in {args.strideA, args.strideB, args.strideY} :
                       RowAdvance(args, stride)
                           = args.nPE * stride - args.N + (IF RemInPlace THEN 1 ELSE 0)

\* C22 as stated: nPE * stride - N in every case
C22_Orig ==
    args.kernel \in ParallelElementwise =>
        \A p \in PE :
            pe[p].pc \in {"loop", "done"} =>
                /\ AtRow(p)
                /\ \A stride \in {args.strideA, args.strideB, args.strideY} :
                       RowAdvance(args, stride) = args.nPE * stride - args.N

\* core 0 of two is about to run its second row, row 2, of a 16-bit copy of padded rows of
\* odd width, core 1 has returned
C22_Witness ==
    /\ args.kernel = COPY_I16P /\ args.nPE = 2 /\ args.M = 3 /\ args.N = 3
    /\ args.strideA > args.N /\ args.strideY = args.N
    /\ pe[0].pc = "loop" /\ pe[0].m = 2 /\ rows[0] = <<0>>
    /\ pe[0].pSrcA = 2 * args.strideA /\ pe[0].pDst = 2 * args.strideY
    /\ pe[1].pc = "done" /\ pe[1].m = 3 /\ pe[1].pSrcA = 3 * args.strideA

\* the row width put together again from the parts an unrolled kernel splits it into
Split(k, N) ==
    CASE k \in {ADD_I16P, SUB_I16S_XP, COPY_I16S_XP, COPY_I16P} ->
             4 * Shr(N, 2) + BitAnd(N, 2) + BitAnd(N, 1)
      [] k \in {ADD_I8P, COPY_I8P} -> 8 * Shr(N, 3) + BitAnd(N, 4) + BitAnd(N, 3)
      [] k \in {ADD_I32S, COPY_I32S_RV, SUB_I16S_RV, COPY_I16S_RV} ->
             2 * Shr(N, 1) + BitAnd(N, 1)
      [] k = COPY_I8S_RV -> 4 * Shr(N, 2) + BitAnd(N, 3)

\* the accesses acc (element indices into a buffer of the given stride) cover rows whole:
\* of every row they touch, each of the columns 0..N-1 exactly once and no other cell
WholeRows(acc, stride) ==
    \/ acc = <<>>
    \/ /\ args.N > 0
       /\ LET cells == {acc[j] : j \in 1..Len(acc)}
              touched == {c \div stride : c \in cells}
          IN  /\ Cardinality(cells) = Len(acc)
              /\ cells = {r * stride + n : r \in touched, n \in 0..(args.N - 1)}

\* what the next iteration of the row loop of processing element p stores and loads covers
\* rows whole, rows times
RowExact(s, rows_) ==
    /\ Len(s.wr) = rows_ * args.N /\ WholeRows(s.wr, args.strideY)
    /\ Len(s.rdA) = rows_ * args.N /\ WholeRows(s.rdA, args.strideA)
    /\ IF args.kernel \in CopyKernels THEN s.rdB = <<>>
       ELSE Len(s.rdB) = rows_ * args.N /\ WholeRows(s.rdB, args.strideB)

(***************************************************************************)
(* C23.  Row-width decomposition: in every unrolled kernel the parts N is  *)
(* split into add up to N, and an iteration of the row loop stores to and  *)
(* loads from each column 0..N-1 of its row exactly once and nothing else  *)
(* (of its two rows in the two-rows-at-a-time copy kernels); so does the   *)
(* m_rem block for every row it touches.                                   *)
(***************************************************************************)
C23_RowSplit ==
    (args.kernel \in Elementwise /\ args.LOOPUNROLL) =>
        /\ Split(args.kernel, args.N) = args.N
        /\ \A p \in PE :
              /\ RowEn(Run, p) =>
                    RowExact(KernelRow(args, Locals(Run, p)), IF TwoRows(args) THEN 2 ELSE 1)
              /\ TailEn(Run, p) =>
                    LET s == KernelTail(args, Locals(Run, p))
                    IN  /\ WholeRows(s.wr, args.strideY)
                        /\ WholeRows(s.rdA, args.strideA)
                        /\ (args.M % 2 = 1 /\ args.N > 0) => s.wr # <<>>

\* core 1 of two is about to add row 1 of 8-bit rows of width 15 (one block of 8, blk, three
\* rem) on padded rows: 15 stores, the first to pDst[strideY], the last to pDst[strideY + 14]
C23_Witness ==
    /\ args.kernel = ADD_I8P /\ args.N = 15 /\ args.nPE = 2 /\ args.M = 2
    /\ args.strideY > args.N
    /\ RowEn(Run, 1) /\ pe[1].m = 1
    /\ LET s == KernelRow(args, Locals(Run, 1))
       IN  /\ Len(s.wr) = 15 /\ s.wr[1] = args.strideY /\ s.wr[15] = args.strideY + 14
           /\ Len(s.rdB) = 15 /\ s.rdB[15] = args.strideB + 14

(***************************************************************************)
(* C24.  Transposed matrix multiply result: once every processing element  *)
(* has returned from plp_mat_mult_trans_i16vp_xpulpv2, pDstC[m*O + o] is    *)
(* the sum over n < N of pSrcA[m*N + n] * pSrcB[o*N + n] modulo 2^32, 0 if  *)
(* N = 0, for all m < M, o < O.  Every entry is written exactly once: an    *)
(* iteration for row m stores once to each of pDstC[m*O .. m*O + O - 1],    *)
(* none of which has been stored to before.                                 *)
(***************************************************************************)
C24_MultResult ==
    args.kernel = MULT_I16VP =>
        /\ AllDone =>
              \A m \in 0..(args.M - 1) : \A o \in 0..(args.O - 1) :
                  /\ bufY[m * args.O + o] = RefDot(m, o, args.N)
                  /\ args.N = 0 => bufY[m * args.O + o] = 0
                  /\ Cardinality(writers[m * args.O + o]) = 1
        /\ \A p \in PE :
              RowEn(Run, p) =>
                  LET s == KernelRow(args, Locals(Run, p))
                  IN  /\ s.wr = [o \in 1..args.O |-> pe[p].m * args.O + o - 1]
                      /\ \A j \in 1..Len(s.wr) : writers[s.wr[j]] = {}

\* both processing elements have returned from the product of a 3 x 2 and a transposed
\* 2 x 2 matrix; the first entry, (-32768)^2 + (-32768)^2, has wrapped to -2^31
C24_Witness ==
    /\ args.kernel = MULT_I16VP /\ args.nPE = 2 /\ args.M = 3 /\ args.O = 2 /\ args.N = 2
    /\ AllDone
    /\ bufA[0] = MinOf(16) /\ bufA[1] = MinOf(16) /\ bufB[0] = MinOf(16) /\ bufB[1] = MinOf(16)
    /\ bufY[0] = MinOf(32)
    /\ writers[0] = {0} /\ writers[2] = {1} /\ writers[5] = {0}

\* where processing element p of the call stands
PcOf(p) == IF p \in PE THEN pe[p].pc ELSE "none"

(***************************************************************************)
(* C25.  Barrier liveness in the matrix multiply: when the cores keep      *)
(* executing, every processing element of a call of                        *)
(* plp_mat_mult_trans_i16vp_xpulpv2 arrives at rt_team_barrier() - also    *)
(* one with core_id >= M, which runs no row - and every processing element *)
(* eventually returns; a processing element that has arrived at the        *)
(* barrier leaves it by returning only, and having returned does nothing   *)
(* more, so it arrives exactly once.                                       *)
(***************************************************************************)
C25_BarrierLiveness ==
    args.kernel = MULT_I16VP =>
        /\ <>AllDone
        /\ \A p \in 0..(MaxPE - 1) :
              p \in PE =>
                  /\ <>(PcOf(p) = "barrier")
                  /\ [](PcOf(p) = "barrier" => [](PcOf(p) \in {"barrier", "done"}))
                  /\ [](PcOf(p) = "done" => [](PcOf(p) = "done"))

\* both processing elements have returned from the multiplication of a matrix of one row:
\* core 1 ran no row
C25_Witness ==
    /\ args.kernel = MULT_I16VP /\ args.nPE = 2 /\ args.M = 1 /\ args.O = 2 /\ args.N = 2
    /\ AllDone /\ rows[0] = <<0>> /\ rows[1] = <<>>
    /\ pe[1].m = 1

\* element index i of a buffer of the given stride lies in the M x N matrix
InMatrix(i, stride) == args.N > 0 /\ (i \div stride) < args.M /\ (i % stride) < args.N

\* the unrolled build of plp_mat_copy_stride_i16s_rv32im called with an odd number of rows
OddRowsCopy == args.kernel = COPY_I16S_RV /\ args.LOOPUNROLL /\ args.M % 2 = 1

(***************************************************************************)
(* C26.  Destination frame: an add, subtract or copy kernel, in either     *)
(* build, stores only to destination cells pDst[m*stride + n] with m < M   *)
(* and n < N; the padding cells and the cells of row M and beyond hold     *)
(* what they held at the call.                                             *)
(***************************************************************************)
C26_DestFrame ==
    args.kernel \in Elementwise =>
        /\ \A i \in DOMAIN bufY :
              ~InMatrix(i, args.strideY) => writers[i] = {} /\ bufY[i] = Call(args).bufY[i]
        /\ \A a \in stray : a[1] # "pDst"

\* the frame holds in every call but those of the unrolled 16-bit rv32im copy with odd M
C26_ButOddRows == OddRowsCopy \/ C26_DestFrame

\* every load of the step s falls into the M x N matrix of its operand
LoadsInMatrix(s) ==
    /\ \A j \in 1..Len(s.rdA) : InMatrix(s.rdA[j], args.strideA)
    /\ \A j \in 1..Len(s.rdB) : InMatrix(s.rdB[j], args.strideB)

(***************************************************************************)
(* C27.  Source bounds: every load of an add, subtract or copy kernel, in  *)
(* a row iteration or in the m_rem block, reads a source cell pSrc[m *     *)
(* stride + n] with m < M and n < N; no padding cell and no cell of row M  *)
(* or beyond is read.                                                      *)
(***************************************************************************)
C27_SourceBounds ==
    args.kernel \in Elementwise =>
        /\ \A p \in PE :
              /\ RowEn(Run, p) => LoadsInMatrix(KernelRow(args, Locals(Run, p)))
              /\ TailEn(Run, p) => LoadsInMatrix(KernelTail(args, Locals(Run, p)))
        /\ \A a \in stray : a[1] = "pDst"

\* the loads stay in the matrix in every call but those of the unrolled 16-bit rv32im copy
\* with odd M
C27_ButOddRows == OddRowsCopy \/ C27_SourceBounds

(***************************************************************************)
(* C28.  Interleaving independence: whatever the order in which the        *)
(* processing elements of a parallel add or copy kernel took their steps,  *)
(* once all of them have returned the destination buffer is the one the    *)
(* row-major double loop leaves: its result in the M x N matrix, the       *)
(* contents at the call everywhere else.                                   *)
(***************************************************************************)
C28_AnyInterleaving ==
    (args.kernel \in ParallelElementwise /\ AllDone) => bufY = RefLoop

\* two processing elements have returned from the 16-bit parallel add of 3 padded rows of
\* width 7; rows 0 and 2 were written by core 0, row 1 by core 1
C28_Witness ==
    /\ args.kernel = ADD_I16P /\ args.nPE = 2 /\ args.M = 3 /\ args.N = 7
    /\ args.strideY > args.N
    /\ AllDone /\ rows[0] = <<0, 2>> /\ rows[1] = <<1>>
    /\ writers[0] = {0} /\ writers[args.strideY] = {1} /\ writers[2 * args.strideY + 6] = {0}
    /\ bufY = RefLoop
    /\ bufY[args.strideY + 6] = RefSum(16, bufA[args.strideA + 6], bufB[args.strideB + 6])
    /\ bufY[args.N] = -1

(***************************************************************************)
(* C29.  Single-PE degeneration: called with nPE = 1 and core_id = 0, the  *)
(* parallel 16-bit copy and the unrolled scalar 16-bit copy, given the     *)
(* same arguments, are at the same place with the same loop counter and    *)
(* pointers after every row, the row either of them executes next loads    *)
(* the same source elements in the same order and stores to the same       *)
(* destination elements in the same order, and the destination contents    *)
(* are the same after every row and at the return.                         *)
(***************************************************************************)
C29_SinglePE ==
    (/\ args.kernel = COPY_I16P /\ args.nPE = 1
     /\ alt.args = [args EXCEPT !.kernel = COPY_I16S_XP]
     /\ alt.bufA = bufA)
    => /\ alt.pe = pe
       /\ alt.rows = rows
       /\ alt.bufY = bufY
       /\ alt.writers = writers
       /\ alt.stray = stray
       /\ RowEn(Run, 0) =>
             LET s == KernelRow(args, Locals(Run, 0))
                 t == KernelRow(alt.args, Locals(alt, 0))
             IN  s.rdA = t.rdA /\ s.wr = t.wr

\* both kernels have returned from the copy of 3 padded rows of width 7, the parallel one
\* run by the single processing element 0
C29_Witness ==
    /\ args.kernel = COPY_I16P /\ args.nPE = 1 /\ PE = {0}
    /\ alt.args.kernel = COPY_I16S_XP /\ alt.args.LOOPUNROLL
    /\ args.M = 3 /\ args.N = 7 /\ args.strideA > args.N /\ args.strideY > args.N
    /\ AllDone /\ alt.pe[0].pc = "done"
    /\ rows[0] = <<0, 1, 2>> /\ alt.rows[0] = <<0, 1, 2>>
    /\ bufY = alt.bufY
    /\ bufY[2 * args.strideY + 6] = bufA[2 * args.strideA + 6]
    /\ bufY[args.N] = -1

\* the kernel is past the declarations of line 60-61 on its way through the loop
SqrtRefining == args.kernel = SQRT_F32S /\ pe[0].pc \in {"loop", "result", "done"}

\* the seed is inside the convergence region, the estimate is a positive number and the value
\* stored to *pRes is a positive number
SqrtInRegion ==
    /\ pe[0].pc # "else"
    /\ (pe[0].pc = "loop" /\ pe[0].i = 0) =>
          ~FLe(OnePointFive, FMul(FMul(pe[0].intermediate, pe[0].intermediate), pe[0].half))
    /\ SqrtRefining => (pe[0].intermediate.k = "fin" /\ pe[0].intermediate.s = 0)
    /\ pe[0].pc = "done" => (bufY[0].k = "fin" /\ bufY[0].s = 0)

(***************************************************************************)
(* C30.  Square-root iterate stays in the convergence region: for every    *)
(* positive input x the seed y0 = 1/(2x) satisfies (x/2)*y0*y0 < 1.5, the  *)
(* estimate is strictly positive before and after each of the 15 updates,  *)
(* and the value written to *pRes is strictly positive and finite.         *)
(***************************************************************************)
C30_ConvergenceRegion ==
    (args.kernel = SQRT_F32S /\ Positive(bufA[0]) /\ pe[0].pc # "start") => SqrtInRegion

\* the same for the inputs from 0.125 up
C30_FromEighth ==
    (args.kernel = SQRT_F32S /\ FLe(F(1, -3), bufA[0]) /\ pe[0].pc # "start") => SqrtInRegion

\* no access of any kernel falls outside the buffers of (M + 1) * stride elements
NoStray == stray = {}
====
